---------------------------- MODULE Spec2Model ----------------------------
(***************************************************************************)
(* Session tracking of GoShark (src/packet/session.go, src/packet/packet.go)*)
(*                                                                         *)
(* Go strings are modelled as sequences of byte values, so that            *)
(* strings.Compare, strings.Contains, strings.ToLower, fmt.Sprintf and     *)
(* SessionKey.String are computed on the bytes as the code computes them.  *)
(* Field names used only as literal map keys ("ip.src", "tcp.flags", ...)  *)
(* and the session states are TLA+ strings.                                *)
(***************************************************************************)
EXTENDS Integers, Sequences, FiniteSets, TLC

VARIABLES
    key,       \* SpecKey: the SessionKey under test
    n1,        \* SpecKey: key.Normalized(), or NoKey before the call
    n2,        \* SpecKey: key.Normalized().Normalized(), or NoKey
    r1,        \* SpecKey: the reversed key's Normalized(), or NoKey
    sess,      \* SpecSession: one Session object
    sessions,  \* SessionTracker.Sessions: key string -> *Session (an index into objs)
    objs,      \* the Session objects allocated by NewSession, in allocation order
    fed,       \* the packets for which SessionTracker.AddPacket was called, in call order
    pc,        \* SpecConc: each producer's position inside SessionTracker.AddPacket
    cur,       \* SpecConc: each producer's locals (packet, normalizedKey, keyStr, session)
    tmutex,    \* holder of SessionTracker.Mutex, or NoOne
    inp,       \* the input handed to a constructor or parser (raw packet, layer data, document)
    layer,     \* SpecLayers: the layer object under test, with its mutable maps
    out        \* the value returned by the last call (SpecParse: one result per parse)

vars == <<key, n1, n2, r1, sess, sessions, objs, fed, pc, cur, tmutex, inp, layer, out>>

keyVars == <<key, n1, n2, r1>>
trackerVars == <<sessions, objs>>
concVars == <<pc, cur, tmutex>>
auxVars == <<inp, layer, out>>

-----------------------------------------------------------------------------
(* Bounds *)

\* longest IP / port string of a SessionKey drawn in SpecKey
MaxStrLen == 2
\* packets handed to one Session in SpecSession
MaxSessionPackets == 3
\* SessionTracker.AddPacket calls in Spec
MaxFed == 2
\* SessionTracker.AddPacket calls in SpecConc, over all producers
MaxConcFed == 3
\* SessionTracker.AddPacket calls in SpecTracker
MaxTracked == 3
\* bits of a Go int and int64 (two's complement; 64 in the code)
IntBits == 4
\* longest raw buffer in SpecRaw
MaxRawLen == 3
\* longest array of layer blobs a JSONLayer is built from in SpecLayers
MaxBlobs == 2
\* most fields added to an XMLLayer in SpecLayers
MaxXMLFields == 2
\* most fields of one name held by a container in SpecField
MaxContained == 2
\* most parses of one document in SpecParse
MaxParses == 2
\* most <proto> elements of a PDML packet in SpecParse
MaxProtos == 2
\* most <field> elements of an ip <proto> in SpecParse
MaxProtoFields == 2

-----------------------------------------------------------------------------
(* Byte strings *)

\* the bytes of the literals the code uses
Colon == <<58>>
Dash == <<45>>
TCP == <<116, 99, 112>>
UDP == <<117, 100, 112>>
SCTP == <<115, 99, 116, 112>>
DCCP == <<100, 99, 99, 112>>
IP == <<105, 112>>
IPV6 == <<105, 112, 118, 54>>
ETH == <<101, 116, 104>>
SYN == <<83, 89, 78>>
ACK == <<65, 67, 75>>
FIN == <<70, 73, 78>>
RST == <<82, 83, 84>>
PSH == <<80, 83, 72>>
Plus == <<43>>
NilText == <<60, 110, 105, 108, 62>>

\* all strings over alphabet of length at most n
RECURSIVE StrsUpTo(_, _)
StrsUpTo(alphabet, n) ==
    IF n = 0 THEN {<<>>}
    ELSE LET shorter == StrsUpTo(alphabet, n - 1)
         IN shorter \cup {Append(s, c) : s \in shorter, c \in alphabet}

\* strings.Compare(a, b): bytewise lexicographic order, -1, 0 or +1
StrLess(a, b) ==
    \E i \in 1..(Len(a) + 1) :
        /\ i <= Len(b)
        /\ \A j \in 1..(i - 1) : a[j] = b[j]
        /\ (i = Len(a) + 1 \/ a[i] < b[i])

Compare(a, b) == IF a = b THEN 0 ELSE IF StrLess(a, b) THEN -1 ELSE 1

\* strings.Contains(s, sub)
Contains(s, sub) ==
    \E i \in 0..(Len(s) - Len(sub)) :
        \A j \in 1..Len(sub) : s[i + j] = sub[j]

\* strings.ToLower on ASCII bytes
ToLower(s) == [i \in 1..Len(s) |-> IF s[i] \in 65..90 THEN s[i] + 32 ELSE s[i]]

\* decimal digits of a natural number
RECURSIVE Digits(_)
Digits(n) == IF n < 10 THEN <<48 + n>> ELSE Append(Digits(n \div 10), 48 + (n % 10))

-----------------------------------------------------------------------------
(* interface{} values held in Layer.Fields *)

NilV == [kind |-> "nil"]
StrV(s) == [kind |-> "string", s |-> s]
NumV(n) == [kind |-> "float64", n |-> n]

\* fmt.Sprintf("%v", v) for nil, a string, and a float64 holding a small natural
Sprintv(v) ==
    CASE v.kind = "nil" -> NilText
      [] v.kind = "string" -> v.s
      [] v.kind = "float64" -> Digits(v.n)

-----------------------------------------------------------------------------
(* SessionKey *)

SessionKey(proto, srcIP, dstIP, srcPort, dstPort) ==
    [Protocol |-> proto, SrcIP |-> srcIP, DstIP |-> dstIP,
     SrcPort |-> srcPort, DstPort |-> dstPort]

\* SessionKey.String: "%s:%s:%s-%s:%s"
String(k) ==
    k.Protocol \o Colon \o k.SrcIP \o Colon \o k.SrcPort \o Dash
        \o k.DstIP \o Colon \o k.DstPort

Swapped(k) == SessionKey(k.Protocol, k.DstIP, k.SrcIP, k.DstPort, k.SrcPort)

\* the slips Normalized could have: comparing the ports with != instead of >,
\* and swapping the addresses without the ports
NormalizedPortNe(k) ==
    IF k.Protocol = TCP \/ k.Protocol = UDP
    THEN LET cmpIP == Compare(k.SrcIP, k.DstIP)
         IN IF cmpIP > 0 THEN Swapped(k)
            ELSE IF cmpIP = 0 /\ Compare(k.SrcPort, k.DstPort) # 0 THEN Swapped(k)
            ELSE k
    ELSE k

NormalizedKeepPorts(k) ==
    IF k.Protocol = TCP \/ k.Protocol = UDP
    THEN LET cmpIP == Compare(k.SrcIP, k.DstIP)
         IN IF cmpIP > 0
            THEN SessionKey(k.Protocol, k.DstIP, k.SrcIP, k.SrcPort, k.DstPort)
            ELSE IF cmpIP = 0 /\ Compare(k.SrcPort, k.DstPort) > 0 THEN Swapped(k)
            ELSE k
    ELSE k

\* SessionKey.Normalized
Normalized(k) ==
    IF k.Protocol = TCP \/ k.Protocol = UDP
    THEN LET cmpIP == Compare(k.SrcIP, k.DstIP)
         IN IF cmpIP > 0 THEN Swapped(k)
            ELSE IF cmpIP = 0 /\ Compare(k.SrcPort, k.DstPort) > 0 THEN Swapped(k)
            ELSE k
    ELSE k

-----------------------------------------------------------------------------
(* Layer and Packet *)

\* a Layer: its Name and its Fields map (field name -> interface{} value)
Layer(name, fields) == [Name |-> name, Fields |-> fields]

\* a Packet as the session code reads it: the ordered Layers and FrameTimeEpoch
Packet(layers, epoch) == [Layers |-> layers, FrameTimeEpoch |-> epoch]

\* Layer.GetField: l.Fields[name], nil when the map has no such key
GetField(l, name) == IF name \in DOMAIN l.Fields THEN l.Fields[name] ELSE NilV

\* index of the first layer called name, 0 when there is none
LayerIndex(p, name) ==
    LET hits == {i \in 1..Len(p.Layers) : p.Layers[i].Name = name}
    IN IF hits = {} THEN 0 ELSE CHOOSE i \in hits : \A j \in hits : i <= j

\* Packet.HasLayer: GetLayer(name) != nil
HasLayer(p, name) == LayerIndex(p, name) # 0

\* Packet.GetLayer when it is not nil
GetLayer(p, name) == p.Layers[LayerIndex(p, name)]

\* Packet.HighestLayer
HighestLayer(p) == IF Len(p.Layers) = 0 THEN <<>> ELSE p.Layers[Len(p.Layers)].Name

\* Packet.TransportLayer: the first of tcp, udp, sctp, dccp that is present
TransportLayer(p) ==
    IF HasLayer(p, TCP) THEN TCP
    ELSE IF HasLayer(p, UDP) THEN UDP
    ELSE IF HasLayer(p, SCTP) THEN SCTP
    ELSE IF HasLayer(p, DCCP) THEN DCCP
    ELSE <<>>

IsDigits(s) == \A i \in 1..Len(s) : s[i] \in 48..57

RECURSIVE DecValue(_)
DecValue(s) ==
    IF s = <<>> THEN 0
    ELSE 10 * DecValue(SubSeq(s, 1, Len(s) - 1)) + (s[Len(s)] - 48)

\* strconv.ParseFloat(s, 64) followed by time.Unix(sec, nsec).Unix(), for texts of
\* the form [+-]digits[.digits]; every other text drawn here is a syntax error
ParseEpoch(s) ==
    LET neg == Len(s) > 0 /\ s[1] = 45
        body == IF Len(s) > 0 /\ s[1] \in {43, 45} THEN Tail(s) ELSE s
        dots == {i \in 1..Len(body) : body[i] = 46}
        dot == IF dots = {} THEN Len(body) + 1
               ELSE CHOOSE i \in dots : \A j \in dots : i <= j
        ip == SubSeq(body, 1, dot - 1)
        fp == SubSeq(body, dot + 1, Len(body))
        ok == IsDigits(ip) /\ IsDigits(fp) /\ Len(ip) + Len(fp) > 0
        frac == \E i \in 1..Len(fp) : fp[i] # 48
    IN [err |-> ~ok,
        unix |-> IF ~ok THEN 0
                 ELSE IF neg THEN (0 - DecValue(ip)) - (IF frac THEN 1 ELSE 0)
                 ELSE DecValue(ip)]

\* Packet.SniffTime and the ts.Unix() taken of it: an error when FrameTimeEpoch is
\* empty or does not parse
SniffTime(p) ==
    IF p.FrameTimeEpoch = <<>> THEN [err |-> TRUE, unix |-> 0]
    ELSE ParseEpoch(p.FrameTimeEpoch)

\* the source and destination port strings ExtractSessionKey reads off a layer
PortsOf(l, srcName, dstName) ==
    LET srcPort == GetField(l, srcName)
        dstPort == GetField(l, dstName)
    IN IF srcPort.kind # "nil" /\ dstPort.kind # "nil"
       THEN <<Sprintv(srcPort), Sprintv(dstPort)>>
       ELSE <<<<>>, <<>>>>

\* ExtractSessionKey: [err, key]
ExtractSessionKey(p) ==
    LET transportLayer == TransportLayer(p)
        proto == IF transportLayer = <<>> THEN ToLower(HighestLayer(p))
                 ELSE transportLayer
        noKey == SessionKey(proto, <<>>, <<>>, <<>>, <<>>)
    IN IF ~HasLayer(p, IP) /\ ~HasLayer(p, IPV6)
       THEN [err |-> TRUE, key |-> noKey]
       ELSE LET ipLayer == IF HasLayer(p, IP) THEN GetLayer(p, IP) ELSE GetLayer(p, IPV6)
                srcIP == IF ipLayer.Name = IP THEN GetField(ipLayer, "ip.src")
                         ELSE GetField(ipLayer, "ipv6.src")
                dstIP == IF ipLayer.Name = IP THEN GetField(ipLayer, "ip.dst")
                         ELSE GetField(ipLayer, "ipv6.dst")
                ports == IF HasLayer(p, TCP)
                         THEN PortsOf(GetLayer(p, TCP), "tcp.srcport", "tcp.dstport")
                         ELSE IF HasLayer(p, UDP)
                         THEN PortsOf(GetLayer(p, UDP), "udp.srcport", "udp.dstport")
                         ELSE <<<<>>, <<>>>>
            IN IF srcIP.kind = "nil" \/ dstIP.kind = "nil"
               THEN [err |-> TRUE, key |-> noKey]
               ELSE [err |-> FALSE,
                     key |-> SessionKey(proto, Sprintv(srcIP), Sprintv(dstIP),
                                        ports[1], ports[2])]

-----------------------------------------------------------------------------
(* Session *)

NoOne == "none"

\* NewSession; Mutex holds the name of the goroutine that has locked it
NewSession(k) ==
    [Key |-> k, Packets |-> <<>>, Started |-> 0, Ended |-> 0, State |-> "new",
     Mutex |-> NoOne]

\* updateTCPState with the first test missing its "no ACK" half, so that SYN+ACK is
\* taken for a SYN
updateTCPStateSynOnly(s, tcpLayer) ==
    IF "tcp.flags" \notin DOMAIN tcpLayer.Fields THEN s
    ELSE LET flagsStr == Sprintv(tcpLayer.Fields["tcp.flags"])
         IN IF Contains(flagsStr, SYN)
            THEN [s EXCEPT !.State = "syn_sent"]
            ELSE IF Contains(flagsStr, ACK) /\ s.State = "syn_received"
            THEN [s EXCEPT !.State = "established"]
            ELSE IF Contains(flagsStr, FIN)
            THEN IF s.State = "fin_wait_1" \/ s.State = "fin_wait_2"
                 THEN [s EXCEPT !.State = "closing"]
                 ELSE [s EXCEPT !.State = "fin_wait_1"]
            ELSE IF Contains(flagsStr, RST)
            THEN [s EXCEPT !.State = "closed"]
            ELSE s

\* updateTCPState with a FIN in fin_wait_1 leading to fin_wait_2
updateTCPStateFinWait2(s, tcpLayer) ==
    IF "tcp.flags" \notin DOMAIN tcpLayer.Fields THEN s
    ELSE LET flagsStr == Sprintv(tcpLayer.Fields["tcp.flags"])
         IN IF Contains(flagsStr, SYN) /\ ~Contains(flagsStr, ACK)
            THEN [s EXCEPT !.State = "syn_sent"]
            ELSE IF Contains(flagsStr, SYN) /\ Contains(flagsStr, ACK)
            THEN [s EXCEPT !.State = "syn_received"]
            ELSE IF Contains(flagsStr, ACK) /\ s.State = "syn_received"
            THEN [s EXCEPT !.State = "established"]
            ELSE IF Contains(flagsStr, FIN)
            THEN IF s.State = "fin_wait_1"
                 THEN [s EXCEPT !.State = "fin_wait_2"]
                 ELSE IF s.State = "fin_wait_2"
                 THEN [s EXCEPT !.State = "closing"]
                 ELSE [s EXCEPT !.State = "fin_wait_1"]
            ELSE IF Contains(flagsStr, RST)
            THEN [s EXCEPT !.State = "closed"]
            ELSE s

\* updateTCPState with the third test missing its "state is syn_received" half, so
\* that any ACK without SYN establishes
updateTCPStateAnyAck(s, tcpLayer) ==
    IF "tcp.flags" \notin DOMAIN tcpLayer.Fields THEN s
    ELSE LET flagsStr == Sprintv(tcpLayer.Fields["tcp.flags"])
         IN IF Contains(flagsStr, SYN) /\ ~Contains(flagsStr, ACK)
            THEN [s EXCEPT !.State = "syn_sent"]
            ELSE IF Contains(flagsStr, SYN) /\ Contains(flagsStr, ACK)
            THEN [s EXCEPT !.State = "syn_received"]
            ELSE IF Contains(flagsStr, ACK)
            THEN [s EXCEPT !.State = "established"]
            ELSE IF Contains(flagsStr, FIN)
            THEN IF s.State = "fin_wait_1" \/ s.State = "fin_wait_2"
                 THEN [s EXCEPT !.State = "closing"]
                 ELSE [s EXCEPT !.State = "fin_wait_1"]
            ELSE IF Contains(flagsStr, RST)
            THEN [s EXCEPT !.State = "closed"]
            ELSE s

\* Session.updateTCPState: the else-if chain over the text of tcp.flags
updateTCPState(s, tcpLayer) ==
    IF "tcp.flags" \notin DOMAIN tcpLayer.Fields THEN s
    ELSE LET flagsStr == Sprintv(tcpLayer.Fields["tcp.flags"])
         IN IF Contains(flagsStr, SYN) /\ ~Contains(flagsStr, ACK)
            THEN [s EXCEPT !.State = "syn_sent"]
            ELSE IF Contains(flagsStr, SYN) /\ Contains(flagsStr, ACK)
            THEN [s EXCEPT !.State = "syn_received"]
            ELSE IF Contains(flagsStr, ACK) /\ s.State = "syn_received"
            THEN [s EXCEPT !.State = "established"]
            ELSE IF Contains(flagsStr, FIN)
            THEN IF s.State = "fin_wait_1" \/ s.State = "fin_wait_2"
                 THEN [s EXCEPT !.State = "closing"]
                 ELSE [s EXCEPT !.State = "fin_wait_1"]
            ELSE IF Contains(flagsStr, RST)
            THEN [s EXCEPT !.State = "closed"]
            ELSE s

\* the timestamp update of Session.AddPacket
UpdateTimes(s, p) ==
    LET ts == SniffTime(p)
    IN IF ts.err THEN s
       ELSE LET unixTime == ts.unix
                s1 == IF s.Started = 0 \/ unixTime < s.Started
                      THEN [s EXCEPT !.Started = unixTime] ELSE s
            IN IF unixTime > s1.Ended THEN [s1 EXCEPT !.Ended = unixTime] ELSE s1

\* Session.AddPacket up to the timestamps: the append and the Started/Ended update
SessionAppend(s, p) == UpdateTimes([s EXCEPT !.Packets = Append(@, p)], p)

\* Session.AddPacket from there: updateTCPState when the packet has a tcp layer
SessionUpdateState(s, p) ==
    IF HasLayer(p, TCP) THEN updateTCPState(s, GetLayer(p, TCP)) ELSE s

\* Session.AddPacket with the append moved under "if err == nil", so that a packet
\* without a sniff time is dropped
SessionAddPacketTimedOnly(s, p) ==
    SessionUpdateState(IF SniffTime(p).err THEN s ELSE SessionAppend(s, p), p)

\* Session.AddPacket, the body run under s.Mutex
SessionAddPacket(s, p) == SessionUpdateState(SessionAppend(s, p), p)

\* Session.GetPacketCount
GetPacketCount(s) == Len(s.Packets)

\* a Go int or int64: the value x wrapped into MinInt..MaxInt
MaxInt == 2 ^ (IntBits - 1) - 1
MinInt == 0 - 2 ^ (IntBits - 1)
Ints == MinInt..MaxInt
WrapInt(x) == ((x - MinInt) % (2 ^ IntBits)) + MinInt

\* Session.GetDuration: the int64 difference wraps
GetDuration(s) ==
    IF s.Started = 0 \/ s.Ended = 0 THEN 0 ELSE WrapInt(s.Ended - s.Started)

-----------------------------------------------------------------------------
(* Values the specifications draw packets and keys from *)

NoKey == [unset |-> TRUE]
Producers == {"p1", "p2"}

A == <<97>>
B == <<98>>
One == <<49>>
Two == <<50>>

IPLayerOf(src, dst) == Layer(IP, ("ip.src" :> StrV(src)) @@ ("ip.dst" :> StrV(dst)))
IPv6LayerOf(src, dst) == Layer(IPV6, ("ipv6.src" :> StrV(src)) @@ ("ipv6.dst" :> StrV(dst)))
TCPPorts(sp, dp) == ("tcp.srcport" :> StrV(sp)) @@ ("tcp.dstport" :> StrV(dp))
UDPLayerOf(sp, dp) == Layer(UDP, ("udp.srcport" :> StrV(sp)) @@ ("udp.dstport" :> StrV(dp)))

\* texts of tcp.flags, written as the tests write them ("SYN", "SYN+ACK")
FlagTexts ==
    {SYN, SYN \o Plus \o ACK, SYN \o Plus \o FIN, ACK, FIN, FIN \o Plus \o ACK,
     RST, RST \o Plus \o ACK, RST \o Plus \o FIN, PSH}

\* texts of frame.time_epoch: "", "x", "0", "5", "7", "0.5", "-3"
EpochTexts == {<<>>, <<120>>, <<48>>, <<53>>, <<55>>, <<48, 46, 53>>, <<45, 51>>}

\* the packets handed to the Session of SpecSession: tcp packets with every flags
\* text, a tcp packet without tcp.flags and one whose tcp.flags is nil, both without
\* a sniff time, and udp packets with every epoch text
SessionPackets ==
    {Packet(<<IPLayerOf(A, B), Layer(TCP, TCPPorts(One, Two) @@ ("tcp.flags" :> StrV(f)))>>,
            <<53>>) : f \in FlagTexts}
    \cup {Packet(<<IPLayerOf(A, B), Layer(TCP, TCPPorts(One, Two))>>, <<>>),
          Packet(<<IPLayerOf(A, B), Layer(TCP, TCPPorts(One, Two) @@ ("tcp.flags" :> NilV))>>,
                 <<>>)}
    \cup {Packet(<<IPLayerOf(A, B), UDPLayerOf(One, Two)>>, e) : e \in EpochTexts}

\* the keys of SpecKey: tcp, udp, a protocol that is not normalized and the empty
\* protocol, with every IP and port string over ':' and 'a' up to MaxStrLen bytes
KeyStrs == StrsUpTo({58, 97}, MaxStrLen)
Keys ==
    {SessionKey(p, a, b, pa, pb) :
        p \in {TCP, UDP, SCTP, <<>>}, a \in KeyStrs, b \in KeyStrs, pa \in KeyStrs, pb \in KeyStrs}

KeyIdle == key = NoKey /\ n1 = NoKey /\ n2 = NoKey /\ r1 = NoKey
ConcIdle ==
    /\ pc = [t \in Producers |-> "idle"]
    /\ cur = [t \in Producers |-> NoKey]
    /\ tmutex = NoOne
TrackerIdle == sessions = <<>> /\ objs = <<>> /\ fed = <<>>
SessionIdle == sess = NewSession(SessionKey(TCP, A, B, One, Two))
AuxIdle == inp = NoKey /\ layer = NoKey /\ out = NoKey

-----------------------------------------------------------------------------
(* SpecKey: SessionKey.Normalized applied to every key of Keys *)

InitKey ==
    /\ key \in Keys
    /\ n1 = NoKey /\ n2 = NoKey /\ r1 = NoKey
    /\ SessionIdle /\ TrackerIdle /\ ConcIdle /\ AuxIdle

\* n1 := key.Normalized()
Normalize ==
    /\ n1 = NoKey
    /\ n1' = Normalized(key)
    /\ UNCHANGED <<key, n2, r1, sess, trackerVars, fed, concVars, auxVars>>

\* n2 := n1.Normalized()
NormalizeAgain ==
    /\ n1 # NoKey /\ n2 = NoKey
    /\ n2' = Normalized(n1)
    /\ UNCHANGED <<key, n1, r1, sess, trackerVars, fed, concVars, auxVars>>

\* r1 := Normalized() of the key of the reverse direction
NormalizeReversed ==
    /\ r1 = NoKey
    /\ r1' = Normalized(SessionKey(key.Protocol, key.DstIP, key.SrcIP,
                                   key.DstPort, key.SrcPort))
    /\ UNCHANGED <<key, n1, n2, sess, trackerVars, fed, concVars, auxVars>>

NextKey == Normalize \/ NormalizeAgain \/ NormalizeReversed

SpecKey == InitKey /\ [][NextKey]_vars

-----------------------------------------------------------------------------
(* SpecSession: Session.AddPacket called on one Session *)

InitSession == KeyIdle /\ SessionIdle /\ TrackerIdle /\ ConcIdle /\ AuxIdle

\* session.AddPacket(p); fed records the packets passed, in call order
AddToSession ==
    /\ Len(fed) < MaxSessionPackets
    /\ \E p \in SessionPackets :
        /\ sess' = SessionAddPacket(sess, p)
        /\ fed' = Append(fed, p)
    /\ UNCHANGED <<keyVars, trackerVars, concVars, auxVars>>

NextSession == AddToSession

SpecSession == InitSession /\ [][NextSession]_vars

-----------------------------------------------------------------------------
(* Claims about SessionKey.Normalized (SpecKey) *)

\* C3: Normalized is idempotent and total: for every key, normalizing the
\* normalized key gives the normalized key again
C3_NormalizedIdempotent == n2 # NoKey => n2 = n1

\* a tcp/udp key with equal addresses whose ports had to be swapped, normalized twice
C3_Witness ==
    /\ n2 # NoKey
    /\ key.Protocol = TCP
    /\ key.SrcIP = key.DstIP
    /\ n1 # key

\* C4: for tcp and udp keys, a key and the key with source and destination
\* exchanged have the same normalized key, equal addresses and ports included
C4_DirectionInvariant ==
    (n1 # NoKey /\ r1 # NoKey /\ key.Protocol \in {TCP, UDP}) => n1 = r1

\* both directions of a udp key with distinct addresses and distinct ports normalized
C4_Witness ==
    /\ n1 # NoKey /\ r1 # NoKey
    /\ key.Protocol = UDP
    /\ key.SrcIP # key.DstIP
    /\ key.SrcPort # key.DstPort
    /\ n1 # key

-----------------------------------------------------------------------------
(* Claims about one Session (SpecSession) *)

\* the text of a packet's tcp.flags as updateTCPState reads it; empty when the
\* packet has no tcp layer or the layer has no tcp.flags
FlagsOf(p) ==
    IF HasLayer(p, TCP) /\ "tcp.flags" \in DOMAIN GetLayer(p, TCP).Fields
    THEN Sprintv(GetLayer(p, TCP).Fields["tcp.flags"])
    ELSE <<>>

HasFlag(p, f) == Contains(FlagsOf(p), f)

\* the flags of p are exactly the set fs of SYN, ACK, FIN, RST
FlagsAre(p, fs) == \A f \in {SYN, ACK, FIN, RST} : HasFlag(p, f) <=> f \in fs

\* a SYN packet without ACK, and a SYN+ACK packet
IsSyn(p) == HasFlag(p, SYN) /\ ~HasFlag(p, ACK)
IsSynAck(p) == HasFlag(p, SYN) /\ HasFlag(p, ACK)

LastPacket == sess.Packets[Len(sess.Packets)]

\* C5: a fresh Session fed SYN, then SYN+ACK, then ACK goes
\* new -> syn_sent -> syn_received -> established, one step per packet
C5_Handshake ==
    LET P == sess.Packets
        n == Len(P)
    IN /\ n = 0 => sess.State = "new"
       /\ (n = 1 /\ IsSyn(P[1])) => sess.State = "syn_sent"
       /\ (n = 2 /\ IsSyn(P[1]) /\ IsSynAck(P[2])) => sess.State = "syn_received"
       /\ (n = 3 /\ IsSyn(P[1]) /\ IsSynAck(P[2]) /\ FlagsAre(P[3], {ACK}))
            => sess.State = "established"

\* the three handshake packets have been added
C5_Witness ==
    /\ Len(sess.Packets) = 3
    /\ FlagsAre(sess.Packets[1], {SYN})
    /\ FlagsAre(sess.Packets[2], {SYN, ACK})
    /\ FlagsAre(sess.Packets[3], {ACK})
    /\ sess.State = "established"

\* C6: after AddPacket of a packet whose flags contain RST, alone or with ACK or
\* FIN, the session is closed, whatever its state was
C6_RstCloses ==
    (Len(sess.Packets) > 0 /\ HasFlag(LastPacket, RST) /\ ~HasFlag(LastPacket, SYN))
        => sess.State = "closed"

\* C7: AddPacket of a FIN or FIN+ACK packet moves a session that is not in
\* fin_wait_1 or fin_wait_2 to fin_wait_1, and one in fin_wait_1 to closing
C7_FinTransition ==
    [][\A p \in SessionPackets :
          (/\ (FlagsAre(p, {FIN}) \/ FlagsAre(p, {FIN, ACK}))
           /\ sess' = SessionAddPacket(sess, p)
           /\ fed' = Append(fed, p))
          => sess'.State = IF sess.State \in {"fin_wait_1", "fin_wait_2"}
                           THEN "closing" ELSE "fin_wait_1"]_vars

\* the sniff times (Unix seconds) of the packets added that have one
ObservedTimes == {SniffTime(sess.Packets[i]).unix :
                    i \in {j \in 1..Len(sess.Packets) : ~SniffTime(sess.Packets[j]).err}}

SetMin(S) == CHOOSE x \in S : \A y \in S : x <= y
SetMax(S) == CHOOSE x \in S : \A y \in S : x >= y

\* C9: once a packet with a sniff time was added, Started is the minimum and Ended
\* the maximum of the sniff times observed, 0 included (stated for sniff times >= 0)
C9_StartedEndedMinMax ==
    (ObservedTimes # {} /\ \A t \in ObservedTimes : t >= 0)
        => /\ sess.Started = SetMin(ObservedTimes)
           /\ sess.Ended = SetMax(ObservedTimes)

\* C10: every AddPacket appends exactly the packet given: Packets is the list of
\* the packets passed, in call order, and GetPacketCount is the number of calls
C10_AppendsEveryPacket ==
    /\ sess.Packets = fed
    /\ GetPacketCount(sess) = Len(fed)

\* three calls, one of them with a packet that has no tcp layer and no sniff
\* time, one with a tcp packet
C10_Witness ==
    /\ Len(fed) = 3
    /\ ~HasLayer(fed[1], TCP) /\ SniffTime(fed[1]).err
    /\ HasLayer(fed[2], TCP)
    /\ GetPacketCount(sess) = 3

-----------------------------------------------------------------------------
(* SessionTracker *)

\* m[k] = v on a Go map
MapPut(m, k, v) == [x \in DOMAIN m \cup {k} |-> IF x = k THEN v ELSE m[x]]

\* SessionTracker.AddPacket without the early return on an extraction error: the
\* packet is filed under the key extracted so far
TrackerAddPacketNoSkip(T, p) ==
    LET ex == ExtractSessionKey(p)
        normalizedKey == Normalized(ex.key)
        keyStr == String(normalizedKey)
        exists == keyStr \in DOMAIN T.sessions
        objs1 == IF exists THEN T.objs
                 ELSE Append(T.objs, NewSession(normalizedKey))
        sessions1 == IF exists THEN T.sessions
                     ELSE MapPut(T.sessions, keyStr, Len(objs1))
        session == sessions1[keyStr]
    IN [sessions |-> sessions1,
        objs |-> [objs1 EXCEPT ![session] = SessionAddPacket(@, p)]]

\* SessionTracker.AddPacket without the lookup: a new Session is stored under the
\* key string on every call
TrackerAddPacketAlwaysNew(T, p) ==
    LET ex == ExtractSessionKey(p)
    IN IF ex.err THEN T
       ELSE LET normalizedKey == Normalized(ex.key)
                keyStr == String(normalizedKey)
                objs1 == Append(T.objs, NewSession(normalizedKey))
                sessions1 == MapPut(T.sessions, keyStr, Len(objs1))
                session == sessions1[keyStr]
            IN [sessions |-> sessions1,
                objs |-> [objs1 EXCEPT ![session] = SessionAddPacket(@, p)]]

\* SessionTracker.AddPacket, the whole call, on the tracker T = [sessions, objs]:
\* extract and normalize the key, look the session up under its string or create
\* it, then session.AddPacket(packet)
TrackerAddPacket(T, p) ==
    LET ex == ExtractSessionKey(p)
    IN IF ex.err THEN T
       ELSE LET normalizedKey == Normalized(ex.key)
                keyStr == String(normalizedKey)
                exists == keyStr \in DOMAIN T.sessions
                objs1 == IF exists THEN T.objs
                         ELSE Append(T.objs, NewSession(normalizedKey))
                sessions1 == IF exists THEN T.sessions
                             ELSE MapPut(T.sessions, keyStr, Len(objs1))
                session == sessions1[keyStr]
            IN [sessions |-> sessions1,
                objs |-> [objs1 EXCEPT ![session] = SessionAddPacket(@, p)]]

\* SessionTracker.GetSessionCount
GetSessionCount == Cardinality(DOMAIN sessions)

\* SessionTracker.GetSession: the *Session under the normalized key's string, as an
\* index into objs, 0 for nil
GetSession(k) ==
    LET keyStr == String(Normalized(k))
    IN IF keyStr \in DOMAIN sessions THEN sessions[keyStr] ELSE 0

\* the orders in which a range over a Go map can visit the set S of keys
Orderings(S) ==
    {f \in [1..Cardinality(S) -> S] : \A i, j \in 1..Cardinality(S) : f[i] = f[j] => i = j}

\* SessionTracker.GetAllSessions: the slices a call can return
GetAllSessions ==
    {[i \in 1..Len(o) |-> sessions[o[i]]] : o \in Orderings(DOMAIN sessions)}

\* the packets fed to the tracker of Spec, all with sniff time 5:
\*   tcp SYN and udp packets over ip with addresses "a", "a:" and ports "", ":";
\*   tcp SYN packets over ipv6; packets whose highest layer is ip (no ports);
\*   a packet whose highest layer is named "TCP" and one whose highest layer is
\*   named "tcp:a"; a packet without an ip layer and one without ip.dst; a udp
\*   packet whose ports are numbers (float64)
TrackerIPs == {A, A \o Colon}
TrackerPorts == {<<>>, Colon}
SynFlags == "tcp.flags" :> StrV(SYN)
TrackerPackets ==
    {Packet(<<IPLayerOf(s, d), Layer(TCP, TCPPorts(sp, dp) @@ SynFlags)>>, <<53>>) :
        s \in TrackerIPs, d \in TrackerIPs, sp \in TrackerPorts, dp \in TrackerPorts}
    \cup {Packet(<<IPLayerOf(s, d), UDPLayerOf(sp, dp)>>, <<53>>) :
        s \in TrackerIPs, d \in TrackerIPs, sp \in TrackerPorts, dp \in TrackerPorts}
    \cup {Packet(<<IPv6LayerOf(s, d), Layer(TCP, TCPPorts(<<>>, <<>>) @@ SynFlags)>>, <<53>>) :
        s \in TrackerIPs, d \in TrackerIPs}
    \cup {Packet(<<Layer(ETH, <<>>), IPLayerOf(s, d)>>, <<53>>) :
        s \in TrackerIPs, d \in TrackerIPs}
    \cup {Packet(<<IPLayerOf(A, A \o Colon), Layer(<<84, 67, 80>>, <<>>)>>, <<53>>),
          Packet(<<IPLayerOf(<<>>, A \o Colon), Layer(TCP \o Colon \o A, <<>>)>>, <<53>>),
          Packet(<<Layer(ETH, <<>>), Layer(TCP, TCPPorts(<<>>, <<>>) @@ SynFlags)>>, <<53>>),
          Packet(<<Layer(IP, "ip.src" :> StrV(A)), UDPLayerOf(<<>>, <<>>)>>, <<53>>),
          Packet(<<IPLayerOf(A, A \o Colon),
                   Layer(UDP, ("udp.srcport" :> NumV(53)) @@ ("udp.dstport" :> NumV(5353)))>>,
                 <<53>>)}

-----------------------------------------------------------------------------
(* Spec: SessionTracker.AddPacket called by one goroutine *)

Init == KeyIdle /\ SessionIdle /\ TrackerIdle /\ ConcIdle /\ AuxIdle

\* tracker.AddPacket(p)
AddPacket ==
    /\ Len(fed) < MaxFed
    /\ \E p \in TrackerPackets :
        LET T == TrackerAddPacket([sessions |-> sessions, objs |-> objs], p)
        IN /\ sessions' = T.sessions
           /\ objs' = T.objs
           /\ fed' = Append(fed, p)
    /\ UNCHANGED <<keyVars, sess, concVars, auxVars>>

Next == AddPacket

Spec == Init /\ [][Next]_vars

-----------------------------------------------------------------------------
(* Claims about the SessionTracker (Spec) *)

\* the packets fed from which a session key can be extracted
Trackable(f) == {i \in 1..Len(f) : ~ExtractSessionKey(f[i]).err}

\* the normalized session key of a trackable packet
KeyOf(p) == Normalized(ExtractSessionKey(p).key)

\* the Session stored under key string ks
SessionAt(ks) == objs[sessions[ks]]

InPackets(p, s) == \E i \in 1..Len(s.Packets) : s.Packets[i] = p

\* C1: a tcp/udp packet and its reverse are stored in the same Session, and the
\* number of sessions is the number of distinct normalized keys among the trackable
\* packets fed (stated for runs that feed tcp and udp packets only)
C1_OneSessionPerKey ==
    (\A i \in Trackable(fed) : ExtractSessionKey(fed[i]).key.Protocol \in {TCP, UDP}) =>
    /\ GetSessionCount = Cardinality({KeyOf(fed[i]) : i \in Trackable(fed)})
    /\ \A i \in Trackable(fed), j \in Trackable(fed) :
         (/\ ExtractSessionKey(fed[i]).key.Protocol \in {TCP, UDP}
          /\ ExtractSessionKey(fed[j]).key = Swapped(ExtractSessionKey(fed[i]).key))
         => \E ks \in DOMAIN sessions :
              InPackets(fed[i], SessionAt(ks)) /\ InPackets(fed[j], SessionAt(ks))

\* C8: every Session of the tracker whose key protocol is not tcp is in state new
C8_NonTcpStaysNew ==
    \A ks \in DOMAIN sessions :
        SessionAt(ks).Key.Protocol # TCP => SessionAt(ks).State = "new"

-----------------------------------------------------------------------------
(* SpecConc: SessionTracker.AddPacket called by the goroutines of Producers, *)
(* one step per lock operation and per access made while a lock is held     *)

\* the packets the producers feed: the three packets of a handshake between a:1 and
\* b:2 (sniff times 5, 7, 5), a udp packet of another flow, two tcp packets whose
\* normalized keys differ and print the same, and a packet without an ip layer
TcpPacket(s, sp, d, dp, flags, epoch) ==
    Packet(<<IPLayerOf(s, d), Layer(TCP, TCPPorts(sp, dp) @@ ("tcp.flags" :> StrV(flags)))>>,
           epoch)
ConcPackets ==
    {TcpPacket(A, One, B, Two, SYN, <<53>>),
     TcpPacket(B, Two, A, One, SYN \o Plus \o ACK, <<55>>),
     TcpPacket(A, One, B, Two, ACK, <<53>>),
     Packet(<<IPLayerOf(A, B), UDPLayerOf(One, Two)>>, <<53>>),
     TcpPacket(A, <<>>, A, Colon, SYN, <<53>>),
     TcpPacket(A, <<>>, A \o Colon, <<>>, SYN, <<53>>),
     Packet(<<Layer(ETH, <<>>)>>, <<53>>)}

\* sync.Mutex.Lock can return when nobody holds the mutex
CanLock(holder) == holder = NoOne

InitConc == KeyIdle /\ SessionIdle /\ TrackerIdle /\ ConcIdle /\ AuxIdle

\* the call and the work done before t.Mutex.Lock(): ExtractSessionKey, the early
\* return on its error, Normalized and String
Call(t) ==
    /\ pc[t] = "idle"
    /\ Len(fed) < MaxConcFed
    /\ \E p \in ConcPackets :
        LET ex == ExtractSessionKey(p)
        IN /\ fed' = Append(fed, p)
           /\ IF ex.err
              THEN UNCHANGED <<pc, cur>>
              ELSE /\ pc' = [pc EXCEPT ![t] = "lock"]
                   /\ cur' = [cur EXCEPT ![t] =
                                [packet |-> p,
                                 normalizedKey |-> Normalized(ex.key),
                                 keyStr |-> String(Normalized(ex.key)),
                                 session |-> 0]]
    /\ UNCHANGED <<keyVars, sess, trackerVars, tmutex, auxVars>>

\* t.Mutex.Lock()
TLock(t) ==
    /\ pc[t] = "lock"
    /\ CanLock(tmutex)
    /\ tmutex' = t
    /\ pc' = [pc EXCEPT ![t] = "lookup"]
    /\ UNCHANGED <<keyVars, sess, trackerVars, fed, cur, auxVars>>

\* session, exists := t.Sessions[keyStr]; when it exists, t.Mutex.Unlock()
TLookup(t) ==
    /\ pc[t] = "lookup"
    /\ IF cur[t].keyStr \in DOMAIN sessions
       THEN /\ cur' = [cur EXCEPT ![t].session = sessions[cur[t].keyStr]]
            /\ pc' = [pc EXCEPT ![t] = "slock"]
            /\ tmutex' = NoOne
       ELSE /\ pc' = [pc EXCEPT ![t] = "create"]
            /\ UNCHANGED <<cur, tmutex>>
    /\ UNCHANGED <<keyVars, sess, trackerVars, fed, auxVars>>

\* session = NewSession(normalizedKey); t.Sessions[keyStr] = session; t.Mutex.Unlock()
TCreate(t) ==
    /\ pc[t] = "create"
    /\ objs' = Append(objs, NewSession(cur[t].normalizedKey))
    /\ sessions' = MapPut(sessions, cur[t].keyStr, Len(objs) + 1)
    /\ cur' = [cur EXCEPT ![t].session = Len(objs) + 1]
    /\ tmutex' = NoOne
    /\ pc' = [pc EXCEPT ![t] = "slock"]
    /\ UNCHANGED <<keyVars, sess, fed, auxVars>>

\* session.AddPacket: s.Mutex.Lock()
SLock(t) ==
    /\ pc[t] = "slock"
    /\ CanLock(objs[cur[t].session].Mutex)
    /\ objs' = [objs EXCEPT ![cur[t].session].Mutex = t]
    /\ pc' = [pc EXCEPT ![t] = "append"]
    /\ UNCHANGED <<keyVars, sess, sessions, fed, cur, tmutex, auxVars>>

\* session.AddPacket: the append and the timestamps
SAppend(t) ==
    /\ pc[t] = "append"
    /\ objs' = [objs EXCEPT ![cur[t].session] = SessionAppend(@, cur[t].packet)]
    /\ pc' = [pc EXCEPT ![t] = "state"]
    /\ UNCHANGED <<keyVars, sess, sessions, fed, cur, tmutex, auxVars>>

\* session.AddPacket: updateTCPState, the deferred s.Mutex.Unlock() and the return
SState(t) ==
    /\ pc[t] = "state"
    /\ objs' = [objs EXCEPT ![cur[t].session] =
                  [SessionUpdateState(@, cur[t].packet) EXCEPT !.Mutex = NoOne]]
    /\ pc' = [pc EXCEPT ![t] = "idle"]
    /\ cur' = [cur EXCEPT ![t] = NoKey]
    /\ UNCHANGED <<keyVars, sess, sessions, fed, tmutex, auxVars>>

NextConc ==
    \E t \in Producers :
        Call(t) \/ TLock(t) \/ TLookup(t) \/ TCreate(t) \/ SLock(t) \/ SAppend(t) \/ SState(t)

SpecConc == InitConc /\ [][NextConc]_vars

-----------------------------------------------------------------------------
(* Claims about concurrent producers (SpecConc) *)

AllReturned == \A t \in Producers : pc[t] = "idle"

\* how often packet p occurs in the sequence q
Occurrences(p, q) == Cardinality({i \in 1..Len(q) : q[i] = p})

\* C2: once every AddPacket call has returned, the tracker holds exactly one Session
\* per distinct normalized key, and every trackable packet is in the Packets of the
\* Session of its key exactly as often as it was fed
C2_ConcurrentAddPacket ==
    AllReturned =>
        /\ GetSessionCount = Cardinality({KeyOf(fed[i]) : i \in Trackable(fed)})
        /\ \A i \in Trackable(fed) :
             /\ Cardinality({ks \in DOMAIN sessions : SessionAt(ks).Key = KeyOf(fed[i])}) = 1
             /\ \A ks \in DOMAIN sessions :
                  SessionAt(ks).Key = KeyOf(fed[i]) =>
                      Occurrences(fed[i], SessionAt(ks).Packets)
                          = Occurrences(fed[i], fed)

-----------------------------------------------------------------------------
(* SpecTracker: every operation of a SessionTracker, called by one goroutine *)

\* the packets fed: those of ConcPackets (a handshake, a udp flow, two tcp packets
\* whose keys print the same, a packet without an ip layer), a packet whose ip layer
\* has no ip.dst and one whose ipv6 layer has no ipv6.src
GrowPackets ==
    ConcPackets
    \cup {Packet(<<Layer(IP, "ip.src" :> StrV(A)), UDPLayerOf(One, Two)>>, <<53>>),
          Packet(<<Layer(IPV6, "ipv6.dst" :> StrV(A)),
                   Layer(TCP, TCPPorts(One, Two) @@ SynFlags)>>, <<53>>)}

\* tracker.AddPacket(p)
GrowAddPacket ==
    /\ Len(fed) < MaxTracked
    /\ \E p \in GrowPackets :
        LET T == TrackerAddPacket([sessions |-> sessions, objs |-> objs], p)
        IN /\ sessions' = T.sessions
           /\ objs' = T.objs
           /\ fed' = Append(fed, p)
    /\ UNCHANGED <<keyVars, sess, concVars, auxVars>>

\* the keys looked up: a flow that is fed, its reverse, and one never fed
QueryKeys ==
    {SessionKey(TCP, A, B, One, Two), SessionKey(TCP, B, A, Two, One),
     SessionKey(SCTP, A, B, One, Two)}

\* tracker.GetSession(k)
CallGetSession ==
    /\ \E k \in QueryKeys : out' = [op |-> "GetSession", session |-> GetSession(k)]
    /\ UNCHANGED <<keyVars, sess, trackerVars, fed, concVars, inp, layer>>

\* tracker.GetAllSessions()
CallGetAllSessions ==
    /\ \E l \in GetAllSessions : out' = [op |-> "GetAllSessions", list |-> l]
    /\ UNCHANGED <<keyVars, sess, trackerVars, fed, concVars, inp, layer>>

\* tracker.GetSessionCount()
CallGetSessionCount ==
    /\ out' = [op |-> "GetSessionCount", count |-> GetSessionCount]
    /\ UNCHANGED <<keyVars, sess, trackerVars, fed, concVars, inp, layer>>

NextTracker ==
    GrowAddPacket \/ CallGetSession \/ CallGetAllSessions \/ CallGetSessionCount

SpecTracker == Init /\ [][NextTracker]_vars

\* no session key can be extracted from p: it has no ip and no ipv6 layer, or the
\* layer used (ip, else ipv6) lacks its source or its destination address
NoSessionKey(p) ==
    IF HasLayer(p, IP)
    THEN GetField(GetLayer(p, IP), "ip.src").kind = "nil"
         \/ GetField(GetLayer(p, IP), "ip.dst").kind = "nil"
    ELSE IF HasLayer(p, IPV6)
    THEN GetField(GetLayer(p, IPV6), "ipv6.src").kind = "nil"
         \/ GetField(GetLayer(p, IPV6), "ipv6.dst").kind = "nil"
    ELSE TRUE

\* C11: AddPacket of a packet without a session key changes neither the session map
\* nor any Session; AddPacket of any other packet, whatever was fed before, appends
\* the packet to the Session stored under its key string
C11_UntrackableIgnored ==
    [][\A p \in GrowPackets :
        fed' = Append(fed, p) =>
            IF NoSessionKey(p)
            THEN sessions' = sessions /\ objs' = objs
            ELSE LET ks == String(KeyOf(p))
                 IN /\ ks \in DOMAIN sessions'
                    /\ objs'[sessions'[ks]].Packets =
                         (IF ks \in DOMAIN sessions THEN SessionAt(ks).Packets ELSE <<>>)
                             \o <<p>>]_vars

\* a packet without a session key was fed to a tracker that already held a session,
\* and nothing was added
C11_Witness ==
    /\ Len(fed) = 2
    /\ ~NoSessionKey(fed[1]) /\ NoSessionKey(fed[2])
    /\ GetSessionCount = 1
    /\ Len(objs) = 1 /\ objs[1].Packets = <<fed[1]>>

\* C12: no operation removes a key of the session map or binds a key to another
\* Session, and GetSessionCount never decreases
C12_TrackerOnlyGrows ==
    [][/\ DOMAIN sessions \subseteq DOMAIN sessions'
       /\ \A ks \in DOMAIN sessions : sessions'[ks] = sessions[ks]
       /\ Cardinality(DOMAIN sessions') >= GetSessionCount]_vars

\* two packets of one flow were fed, one session holds both, and GetSession has
\* returned it
C12_Witness ==
    /\ Len(fed) = 2
    /\ GetSessionCount = 1
    /\ Len(objs[1].Packets) = 2
    /\ out = [op |-> "GetSession", session |-> 1]

-----------------------------------------------------------------------------
(* SpecRaw: Packet.GetLayerRawBytes and Packet.GetFieldRawBytes              *)
(*                                                                         *)
(* A Go int is 64 bits wide; the model computes with IntBits bits, in two's *)
(* complement, so that Pos+Len and Start+Length wrap as they do in the code.*)

\* a []byte that is not nil, the result of an index out of range, and nil
BytesV(b) == [kind |-> "bytes", val |-> b]
PanicV == [kind |-> "panic"]

\* a FieldOffset (Start, Length) and a Layer with its Offsets, Pos and Len
FieldOffset(start, length) == [Start |-> start, Length |-> length]
LayerAt(name, fields, offsets, pos, len) ==
    [Name |-> name, Fields |-> fields, Offsets |-> offsets, Pos |-> pos, Len |-> len]

\* a Packet with its raw buffer
RawPacket(layers, rawData) ==
    [Layers |-> layers, FrameTimeEpoch |-> <<>>, RawData |-> rawData]

\* Layer.GetFieldOffset: l.Offsets[name], nil when the map has no such key
GetFieldOffset(l, name) == IF name \in DOMAIN l.Offsets THEN l.Offsets[name] ELSE NilV

\* the slice expression b[lo:hi] on a []byte whose capacity is its length
SliceOf(b, lo, hi) ==
    IF 0 <= lo /\ lo <= hi /\ hi <= Len(b)
    THEN BytesV(SubSeq(b, lo + 1, hi))
    ELSE PanicV

\* Packet.GetLayerRawBytes
GetLayerRawBytes(p, layerName) ==
    IF ~HasLayer(p, layerName) \/ p.RawData = NilV THEN NilV
    ELSE LET l == GetLayer(p, layerName)
         IN IF l.Pos < 0 \/ l.Len <= 0 THEN NilV
            ELSE IF WrapInt(l.Pos + l.Len) > Len(p.RawData.val) THEN NilV
            ELSE SliceOf(p.RawData.val, l.Pos, WrapInt(l.Pos + l.Len))

\* Packet.GetFieldRawBytes
GetFieldRawBytes(p, layerName, fieldName) ==
    IF ~HasLayer(p, layerName) \/ p.RawData = NilV THEN NilV
    ELSE LET fieldOffset == GetFieldOffset(GetLayer(p, layerName), fieldName)
         IN IF fieldOffset = NilV THEN NilV
            ELSE IF fieldOffset.Start < 0 \/ fieldOffset.Length <= 0 THEN NilV
            ELSE IF WrapInt(fieldOffset.Start + fieldOffset.Length) > Len(p.RawData.val)
            THEN NilV
            ELSE SliceOf(p.RawData.val, fieldOffset.Start,
                         WrapInt(fieldOffset.Start + fieldOffset.Length))

\* the raw buffers: nil and the prefixes of aa bb cc up to MaxRawLen bytes
RawBuffers ==
    {NilV} \cup {BytesV(SubSeq(<<170, 187, 204>>, 1, n)) : n \in 0..MaxRawLen}

\* the packets of SpecRaw: one eth layer, either placed at Pos/Len without field
\* offsets, or with the offset of eth.src at Start/Length, over every raw buffer
RawPackets ==
    {RawPacket(<<LayerAt(ETH, <<>>, <<>>, pos, len)>>, raw) :
        pos \in Ints, len \in Ints, raw \in RawBuffers}
    \cup {RawPacket(<<LayerAt(ETH, <<>>, "eth.src" :> FieldOffset(start, length), 0, 0)>>,
                    raw) :
            start \in Ints, length \in Ints, raw \in RawBuffers}

InitRaw ==
    /\ KeyIdle /\ SessionIdle /\ TrackerIdle /\ ConcIdle
    /\ inp \in RawPackets
    /\ layer = NoKey
    /\ out = NoKey

\* p.GetLayerRawBytes(layerName)
CallGetLayerRawBytes ==
    /\ \E ln \in {ETH, IP} :
        out' = [op |-> "GetLayerRawBytes", layerName |-> ln, fieldName |-> "",
                res |-> GetLayerRawBytes(inp, ln)]
    /\ UNCHANGED <<keyVars, sess, trackerVars, fed, concVars, inp, layer>>

\* p.GetFieldRawBytes(layerName, fieldName)
CallGetFieldRawBytes ==
    /\ \E ln \in {ETH, IP}, fn \in {"eth.src", "eth.dst"} :
        out' = [op |-> "GetFieldRawBytes", layerName |-> ln, fieldName |-> fn,
                res |-> GetFieldRawBytes(inp, ln, fn)]
    /\ UNCHANGED <<keyVars, sess, trackerVars, fed, concVars, inp, layer>>

NextRaw == CallGetLayerRawBytes \/ CallGetFieldRawBytes

SpecRaw == InitRaw /\ [][NextRaw]_vars

\* the sub-slice RawData[start : start+length] of the claim, or nil: nil when the
\* raw buffer is missing, when the offset is missing (a start below 0 or a length
\* below 1 counted as missing), and when start+length exceeds len(RawData)
ExpectedRawBytes(raw, present, start, length) ==
    IF raw = NilV \/ ~present \/ start < 0 \/ length <= 0 THEN NilV
    ELSE IF start + length > Len(raw.val) THEN NilV
    ELSE BytesV(SubSeq(raw.val, start + 1, start + length))

\* C13: GetLayerRawBytes and GetFieldRawBytes return nil when the layer, the raw
\* buffer or the offset is missing or start+length exceeds len(RawData), and the
\* sub-slice RawData[start : start+length] otherwise; no call fails on an index
C13_RawBytesInBounds ==
    out # NoKey =>
        LET has == HasLayer(inp, out.layerName)
            l == inp.Layers[1]
        IN IF out.op = "GetLayerRawBytes"
           THEN out.res = ExpectedRawBytes(inp.RawData, has, l.Pos, l.Len)
           ELSE LET fo == GetFieldOffset(l, out.fieldName)
                IN IF fo = NilV
                   THEN out.res = NilV
                   ELSE out.res = ExpectedRawBytes(inp.RawData, has, fo.Start, fo.Length)

-----------------------------------------------------------------------------
(* Layer variants of package layers: XMLLayer, EKLayer, JSONLayer, and the   *)
(* generic packet.Layer.  Field names are byte strings here.                *)

Dot == <<46>>
Underscore == <<95>>

\* strings.HasPrefix, strings.TrimPrefix, strings.EqualFold (ASCII)
HasPrefix(s, prefix) ==
    Len(prefix) <= Len(s) /\ SubSeq(s, 1, Len(prefix)) = prefix
TrimPrefix(s, prefix) ==
    IF HasPrefix(s, prefix) THEN SubSeq(s, Len(prefix) + 1, Len(s)) ELSE s
EqualFold(a, b) == ToLower(a) = ToLower(b)

\* strings.ReplaceAll(s, old, new) for one-byte old and new
ReplaceByte(s, old, new) == [i \in 1..Len(s) |-> IF s[i] = old[1] THEN new[1] ELSE s[i]]

\* strings.ReplaceAll(strings.ReplaceAll(s, ".", "_"), "-", "_")
Underscored(s) == ReplaceByte(ReplaceByte(s, Dot, Underscore), Dash, Underscore)

\* strings.Split(s, sep) for a one-byte sep
RECURSIVE Split(_, _)
Split(s, sep) ==
    LET hits == {i \in 1..Len(s) : s[i] = sep[1]}
    IN IF hits = {} THEN <<s>>
       ELSE LET i == CHOOSE h \in hits : \A g \in hits : h <= g
            IN <<SubSeq(s, 1, i - 1)>> \o Split(SubSeq(s, i + 1, Len(s)), sep)

\* the value a call returns, with the operation and its argument
Returned(op, name, res) == [op |-> op, name |-> name, res |-> res]

\* BaseLayer.GetField, BaseLayer.FieldNames: panic
\* BaseLayer.HasField calls b.FieldNames() and BaseLayer.Get calls b.HasField(name)
\* on the embedded *BaseLayer, whatever layer embeds it
BaseFieldNames == PanicV
BaseHasField(name) == BaseFieldNames
BaseGet(name, defaultValue) == BaseHasField(name)

(* packet.Layer *)

\* Layer.HasField, Layer.Get, Layer.FieldNames (as a set: the order of a range
\* over a map is not fixed)
LayerHasField(l, name) == name \in DOMAIN l.Fields
LayerGet(l, name, defaultValue) ==
    IF name \in DOMAIN l.Fields THEN l.Fields[name] ELSE defaultValue
LayerFieldNames(l) == DOMAIN l.Fields

(* layers.XMLLayer *)

\* layers.LayerField, and a *LayerFieldsContainer as the list of its fields
XLayerField(name, showname, rawValue) ==
    [Name |-> name, Showname |-> showname, RawValue |-> rawValue]
ContainerV(fields) == [kind |-> "container", Fields |-> fields]

\* (layers) LayerFieldsContainer.GetMainField, nil for an empty container
XGetMainField(c) == IF Len(c.Fields) > 0 THEN c.Fields[1] ELSE NilV

\* (layers) LayerFieldsContainer.GetDefaultValue
XGetDefaultValue(c) ==
    IF XGetMainField(c) # NilV THEN XGetMainField(c).RawValue ELSE <<>>

\* NewXMLLayer
NewXMLLayer(name, rawMode) ==
    [variant |-> "xml", LayerName |-> name, RawMode |-> rawMode, AllFields |-> <<>>]

\* XMLLayer.AddField (field is never nil here)
XMLAddField(l, field) ==
    IF field.Name \in DOMAIN l.AllFields
    THEN [l EXCEPT !.AllFields[field.Name] = ContainerV(Append(@.Fields, field))]
    ELSE [l EXCEPT !.AllFields = MapPut(@, field.Name, ContainerV(<<field>>))]

\* XMLLayer.getFieldPrefix, XMLLayer.sanitizeFieldName
Geninfo == <<103, 101, 110, 105, 110, 102, 111>>
XMLFieldPrefix(l) == IF l.LayerName = Geninfo THEN <<>> ELSE l.LayerName \o Dot
XMLSanitize(l, fieldName) == Underscored(TrimPrefix(fieldName, XMLFieldPrefix(l)))

\* what XMLLayer.GetField returns for a container found
XMLFound(l, c) == IF l.RawMode THEN StrV(XGetDefaultValue(c)) ELSE c

\* XMLLayer.GetField: the values a call can return (the loop over AllFields ends at
\* the first match in map order)
XMLGetField(l, name) ==
    IF name \in DOMAIN l.AllFields THEN {XMLFound(l, l.AllFields[name])}
    ELSE LET hits == {k \in DOMAIN l.AllFields : XMLSanitize(l, k) = XMLSanitize(l, name)}
         IN IF hits = {} THEN {NilV} ELSE {XMLFound(l, l.AllFields[k]) : k \in hits}

\* XMLLayer.FieldNames (as a set)
XMLFieldNames(l) == {XMLSanitize(l, k) : k \in DOMAIN l.AllFields}

(* layers.EKLayer *)

NewEKLayer(layerName, fieldsDict) ==
    [variant |-> "ek", LayerName |-> layerName, FieldsDict |-> fieldsDict]

\* NewEKMultiField; the containing layer is the layer asked
EKMultiField(fullName, value) == [kind |-> "multi", FullName |-> fullName, Value |-> value]

\* EKLayer.getPossibleLayerPrefixes
HTTP == <<104, 116, 116, 112>>
DNS == <<100, 110, 115>>
EKPrefixes(l) ==
    LET u(a, b) == a \o Underscore \o b
        src == <<115, 114, 99>>
        dst == <<100, 115, 116>>
        port == <<112, 111, 114, 116>>
        request == <<114, 101, 113, 117, 101, 115, 116>>
        response == <<114, 101, 115, 112, 111, 110, 115, 101>>
        query == <<113, 117, 101, 114, 121>>
    IN <<l.LayerName>> \o
       (CASE l.LayerName = IP -> <<u(IP, src), u(IP, dst)>>
          [] l.LayerName = TCP -> <<u(TCP, src \o port), u(TCP, dst \o port)>>
          [] l.LayerName = UDP -> <<u(UDP, src \o port), u(UDP, dst \o port)>>
          [] l.LayerName = HTTP -> <<u(HTTP, request), u(HTTP, response)>>
          [] l.LayerName = DNS -> <<u(DNS, query), u(DNS, response)>>
          [] OTHER -> <<>>)

\* EKLayer.fieldHasSubfields
EKHasSubfields(l, fieldEKName) ==
    \E k \in DOMAIN l.FieldsDict : HasPrefix(k, fieldEKName \o Underscore)

\* EKLayer.getNestedField
EKGetNestedField(l, prefix, name) ==
    LET fieldEKName == prefix \o Underscore \o name
    IN IF fieldEKName \in DOMAIN l.FieldsDict
       THEN IF EKHasSubfields(l, fieldEKName)
            THEN EKMultiField(name, l.FieldsDict[fieldEKName])
            ELSE l.FieldsDict[fieldEKName]
       ELSE IF EKHasSubfields(l, fieldEKName) THEN EKMultiField(name, NilV)
       ELSE NilV

\* EKLayer.GetField without the direct lookup of the name itself
EKGetFieldPrefixesOnly(l, name0) ==
    LET name == ReplaceByte(name0, Dot, Underscore)
        prefixes == EKPrefixes(l)
        hits == {i \in 1..Len(prefixes) : EKGetNestedField(l, prefixes[i], name) # NilV}
    IN IF hits = {} THEN NilV
       ELSE EKGetNestedField(l, prefixes[CHOOSE i \in hits : \A j \in hits : i <= j], name)

\* EKLayer.GetField
EKGetField(l, name0) ==
    LET name == ReplaceByte(name0, Dot, Underscore)
        prefixes == EKPrefixes(l)
        hits == {i \in 1..Len(prefixes) : EKGetNestedField(l, prefixes[i], name) # NilV}
    IN IF name \in DOMAIN l.FieldsDict THEN l.FieldsDict[name]
       ELSE IF hits = {} THEN NilV
       ELSE EKGetNestedField(l, prefixes[CHOOSE i \in hits : \A j \in hits : i <= j], name)

\* EKLayer.HasField
EKHasField(l, name) == EKGetField(l, name) # NilV

\* EKLayer.AllFieldNames, EKLayer.FieldNames (as sets)
EKAllFieldNames(l) ==
    LET prefixes == EKPrefixes(l)
        first(k) == CHOOSE i \in 1..Len(prefixes) :
                        /\ HasPrefix(k, prefixes[i])
                        /\ \A j \in 1..(i - 1) : ~HasPrefix(k, prefixes[j])
    IN {TrimPrefix(k, prefixes[first(k)] \o Underscore) :
            k \in {x \in DOMAIN l.FieldsDict :
                     \E i \in 1..Len(prefixes) : HasPrefix(x, prefixes[i])}}
EKFieldNames(l) == {Split(n, Underscore)[1] : n \in EKAllFieldNames(l)}

(* layers.JSONLayer *)

\* decoded JSON: an object, an array, and a *JSONLayer held in an interface{}
MapV(m) == [kind |-> "map", m |-> m]
ListV(l) == [kind |-> "list", l |-> l]
LayerV(l) == [kind |-> "layer", l |-> l]

\* the Fields a JSONLayer takes from one blob: the object itself, or an empty map
BlobFields(item) == IF item.kind = "map" THEN item.m ELSE <<>>
\* the Value a JSONLayer takes from one blob that is not an object
BlobValue(item) == IF item.kind = "map" THEN NilV ELSE item

\* NewJSONLayer that keeps the first element of an array and drops the others
NewJSONLayerFirstOnly(layerName, layerData, fullName, isIntermediate) ==
    LET first == IF layerData.kind = "list" /\ Len(layerData.l) > 0
                 THEN layerData.l[1] ELSE layerData
    IN [variant |-> "json", LayerName |-> layerName, DuplicateLayers |-> <<>>,
        FullName |-> IF fullName = <<>> THEN layerName ELSE fullName,
        IsIntermediate |-> isIntermediate,
        Fields |-> IF layerData = ListV(<<>>) THEN <<>> ELSE BlobFields(first),
        Value |-> IF layerData = ListV(<<>>) THEN NilV ELSE BlobValue(first),
        WrappedFields |-> <<>>]

\* NewJSONLayer
RECURSIVE NewJSONLayer(_, _, _, _)
NewJSONLayer(layerName, layerData, fullName, isIntermediate) ==
    LET jsonLayer == [variant |-> "json", LayerName |-> layerName,
                      DuplicateLayers |-> <<>>,
                      FullName |-> IF fullName = <<>> THEN layerName ELSE fullName,
                      IsIntermediate |-> isIntermediate,
                      Fields |-> <<>>, Value |-> NilV, WrappedFields |-> <<>>]
    IN CASE layerData.kind = "list" ->
              IF Len(layerData.l) > 0
              THEN [jsonLayer EXCEPT
                      !.DuplicateLayers =
                          [i \in 1..(Len(layerData.l) - 1) |->
                              NewJSONLayer(layerName, layerData.l[i + 1], fullName,
                                           isIntermediate)],
                      !.Fields = BlobFields(layerData.l[1]),
                      !.Value = BlobValue(layerData.l[1])]
              ELSE jsonLayer
         [] layerData.kind = "map" -> [jsonLayer EXCEPT !.Fields = layerData.m]
         [] OTHER -> [jsonLayer EXCEPT !.Value = layerData]

\* sanitizeFieldName(fieldName, layerName) and SanitizeFieldName(fieldName, prefix)
SanitizeLower(fieldName, layerName) == TrimPrefix(fieldName, layerName \o Dot)
SanitizeUpper(fieldName, prefix) == Underscored(TrimPrefix(fieldName, prefix))

\* JSONLayer.getInternalFieldByName: the values a call can return (the loop over
\* Fields ends at the first match in map order)
JSONInternalField(l, name) ==
    IF name \in DOMAIN l.Fields THEN {l.Fields[name]}
    ELSE IF (l.FullName \o Dot \o name) \in DOMAIN l.Fields
    THEN {l.Fields[l.FullName \o Dot \o name]}
    ELSE LET hits == {k \in DOMAIN l.Fields :
                        EqualFold(SanitizeLower(k, l.FullName), name)}
         IN IF hits = {} THEN {NilV} ELSE {l.Fields[k] : k \in hits}

\* JSONLayer.isFakeField
JSONIsFakeField(l, name) ==
    \E k \in DOMAIN l.Fields : HasPrefix(k, l.FullName \o Dot \o name \o Dot)

\* JSONLayer.makeWrappedField
FakeFieldWrapper ==
    <<102, 97, 107, 101, 45, 102, 105, 101, 108, 100, 45, 119, 114, 97, 112, 112, 101, 114>>
JSONMakeWrappedField(l, fieldName, value, isFake) ==
    IF value = NilV /\ isFake
    THEN LayerV(NewJSONLayer(FakeFieldWrapper, MapV(<<>>), fieldName, TRUE))
    ELSE IF value.kind \in {"map", "list"}
    THEN LayerV(NewJSONLayer(fieldName, value, l.FullName \o Dot \o fieldName, FALSE))
    ELSE value

\* JSONLayer.GetField: the outcomes of a call, each the value returned and the
\* layer as the call leaves it
JSONGetField(l, name) ==
    IF name \in DOMAIN l.WrappedFields
    THEN {[res |-> l.WrappedFields[name], l |-> l]}
    ELSE {IF field = NilV /\ ~JSONIsFakeField(l, name)
          THEN [res |-> NilV, l |-> l]
          ELSE LET wrappedField ==
                       JSONMakeWrappedField(l, name, field, JSONIsFakeField(l, name))
               IN [res |-> wrappedField,
                   l |-> [l EXCEPT !.WrappedFields = MapPut(@, name, wrappedField)]] :
            field \in JSONInternalField(l, name)}

\* JSONLayer.FieldNames (as a set)
JSONFieldNames(l) ==
    {SanitizeUpper(k, l.FullName) : k \in {x \in DOMAIN l.Fields : HasPrefix(x, l.FullName)}}
    \cup {SanitizeUpper(Split(k, Dot)[Len(Split(k, Dot))], <<>>) :
            k \in {x \in DOMAIN l.Fields : Contains(x, Dot)}}

\* the loop of JSONLayer.HasField over the parts of a dotted name, from curLayer
RECURSIVE JSONWalk(_, _)
JSONWalk(curLayer, parts) ==
    IF parts = <<>> THEN {[res |-> TRUE, l |-> curLayer]}
    ELSE UNION {IF g.res.kind = "layer"
                THEN {[res |-> w.res,
                       l |-> [g.l EXCEPT !.WrappedFields[Head(parts)] = LayerV(w.l)]] :
                        w \in JSONWalk(g.res.l, Tail(parts))}
                ELSE {[res |-> g.res # NilV, l |-> g.l]} :
                  g \in JSONGetField(curLayer, Head(parts))}

\* JSONLayer.HasField: the outcomes of a call
JSONHasField(l, name) ==
    IF \E fieldName \in JSONFieldNames(l) : EqualFold(fieldName, name)
    THEN {[res |-> TRUE, l |-> l]}
    ELSE JSONWalk(l, Split(name, Dot))

-----------------------------------------------------------------------------
(* SpecLayers: one layer of any variant, constructed from inp, and the read  *)
(* operations GetField, HasField, FieldNames and Get called on it           *)

\* field names: ip.src, src, SRC, ip.a.b, ip.a-b, a_b, opt, x, opt.x, zz, ip_src,
\* ip_src_host, host
IpSrc == <<105, 112, 46, 115, 114, 99>>
Src == <<115, 114, 99>>
SrcUpper == <<83, 82, 67>>
IpAB == <<105, 112, 46, 97, 46, 98>>
IpADashB == <<105, 112, 46, 97, 45, 98>>
AUnderB == <<97, 95, 98>>
Opt == <<111, 112, 116>>
X == <<120>>
OptX == Opt \o Dot \o X
Zz == <<122, 122>>
IpUSrc == <<105, 112, 95, 115, 114, 99>>
Host == <<104, 111, 115, 116>>
IpUSrcHost == IpUSrc \o Underscore \o Host
IpUDst == <<105, 112, 95, 100, 115, 116>>
IpUHost == IP \o Underscore \o Host

\* the default handed to Get
DefaultV == StrV(<<100>>)

\* all sequences over S of length lo..hi
SeqsOf(S, lo, hi) == UNION {[1..n -> S] : n \in lo..hi}

\* the fields of a generic layer
GenericFieldMaps ==
    {<<>>, IpSrc :> StrV(A), IpSrc :> NilV, (IpSrc :> StrV(A)) @@ (Src :> StrV(B))}

\* the <field>s added to an XMLLayer
XMLFields ==
    {XLayerField(IpSrc, <<>>, A), XLayerField(IpSrc, Src, B), XLayerField(IpSrc, Src, <<>>),
     XLayerField(IpAB, <<>>, A), XLayerField(IpADashB, <<>>, B)}

\* the field dictionaries of an EKLayer
EKDicts ==
    {<<>>, IpUSrc :> StrV(A), (IpUSrc :> StrV(A)) @@ (IpUSrcHost :> StrV(B)),
     IpUSrcHost :> StrV(B), IpUSrc :> NilV, Src :> StrV(A),
     (IpUSrc :> StrV(A)) @@ (IpUDst :> StrV(B)),
     (IpUHost :> NilV) @@ (IpUSrcHost :> StrV(B))}

\* the layer blobs of a JSONLayer: objects and a string
JSONBlobs ==
    {MapV(IpSrc :> StrV(A)), MapV(Src :> StrV(B)), MapV(IpAB :> StrV(B)),
     MapV((IpSrc :> StrV(A)) @@ (Opt :> MapV(X :> StrV(A)))), StrV(A)}

\* what a layer is constructed from
LayerInputs ==
    {[variant |-> "generic", name |-> IP, data |-> f] : f \in GenericFieldMaps}
    \cup {[variant |-> "xml", name |-> IP, rawMode |-> r, data |-> fs] :
            r \in BOOLEAN, fs \in SeqsOf(XMLFields, 0, MaxXMLFields)}
    \cup {[variant |-> "ek", name |-> IP, data |-> d] : d \in EKDicts}
    \cup {[variant |-> "json", name |-> IP, data |-> b] :
            b \in JSONBlobs \cup {ListV(l) : l \in SeqsOf(JSONBlobs, 0, MaxBlobs)}}

\* XMLLayer.AddField called for each field of fs in turn
RECURSIVE XMLAddFields(_, _)
XMLAddFields(l, fs) ==
    IF fs = <<>> THEN l ELSE XMLAddFields(XMLAddField(l, Head(fs)), Tail(fs))

\* the layer constructed from an input
ConstructLayer(i) ==
    CASE i.variant = "generic" -> Layer(i.name, i.data)
      [] i.variant = "xml" -> XMLAddFields(NewXMLLayer(i.name, i.rawMode), i.data)
      [] i.variant = "ek" -> NewEKLayer(i.name, i.data)
      [] i.variant = "json" -> NewJSONLayer(i.name, i.data, <<>>, FALSE)

VariantOf(l) == IF "variant" \in DOMAIN l THEN l.variant ELSE "generic"

\* the map that holds the fields of a layer
FieldMapOf(l) ==
    CASE VariantOf(l) = "generic" -> l.Fields
      [] VariantOf(l) = "xml" -> l.AllFields
      [] VariantOf(l) = "ek" -> l.FieldsDict
      [] VariantOf(l) = "json" -> l.Fields

BoolV(b) == [kind |-> "bool", b |-> b]
NamesV(S) == [kind |-> "names", set |-> S]

\* l.GetField(name), l.HasField(name), l.FieldNames() and l.Get(name, d) by variant:
\* the outcomes of a call, each the value returned and the layer as the call leaves it
DoGetField(l, name) ==
    CASE VariantOf(l) = "generic" -> {[res |-> GetField(l, name), l |-> l]}
      [] VariantOf(l) = "xml" -> {[res |-> r, l |-> l] : r \in XMLGetField(l, name)}
      [] VariantOf(l) = "ek" -> {[res |-> EKGetField(l, name), l |-> l]}
      [] VariantOf(l) = "json" -> JSONGetField(l, name)
DoHasField(l, name) ==
    CASE VariantOf(l) = "generic" -> {[res |-> BoolV(LayerHasField(l, name)), l |-> l]}
      [] VariantOf(l) = "xml" -> {[res |-> BaseHasField(name), l |-> l]}
      [] VariantOf(l) = "ek" -> {[res |-> BoolV(EKHasField(l, name)), l |-> l]}
      [] VariantOf(l) = "json" ->
            {[res |-> BoolV(o.res), l |-> o.l] : o \in JSONHasField(l, name)}
DoFieldNames(l) ==
    CASE VariantOf(l) = "generic" -> NamesV(LayerFieldNames(l))
      [] VariantOf(l) = "xml" -> NamesV(XMLFieldNames(l))
      [] VariantOf(l) = "ek" -> NamesV(EKFieldNames(l))
      [] VariantOf(l) = "json" -> NamesV(JSONFieldNames(l))
DoGet(l, name, defaultValue) ==
    IF VariantOf(l) = "generic" THEN LayerGet(l, name, defaultValue)
    ELSE BaseGet(name, defaultValue)

\* the names asked for
QueryNames == {IpSrc, Src, SrcUpper, A, Opt, OptX, Zz, AUnderB, Host, IpUSrc}

InitLayers ==
    /\ KeyIdle /\ SessionIdle /\ TrackerIdle /\ ConcIdle
    /\ inp \in LayerInputs
    /\ layer = ConstructLayer(inp)
    /\ out = NoKey

CallGetField ==
    /\ \E name \in QueryNames : \E o \in DoGetField(layer, name) :
        /\ out' = Returned("GetField", name, o.res)
        /\ layer' = o.l
    /\ UNCHANGED <<keyVars, sess, trackerVars, fed, concVars, inp>>

CallHasField ==
    /\ \E name \in QueryNames : \E o \in DoHasField(layer, name) :
        /\ out' = Returned("HasField", name, o.res)
        /\ layer' = o.l
    /\ UNCHANGED <<keyVars, sess, trackerVars, fed, concVars, inp>>

CallFieldNames ==
    /\ out' = Returned("FieldNames", <<>>, DoFieldNames(layer))
    /\ UNCHANGED <<keyVars, sess, trackerVars, fed, concVars, inp, layer>>

CallGet ==
    /\ \E name \in QueryNames : out' = Returned("Get", name, DoGet(layer, name, DefaultV))
    /\ UNCHANGED <<keyVars, sess, trackerVars, fed, concVars, inp, layer>>

NextLayers == CallGetField \/ CallHasField \/ CallFieldNames \/ CallGet

SpecLayers == InitLayers /\ [][NextLayers]_vars

\* C14: GetField, HasField, FieldNames and Get leave the layer as it was
C14_ReadsModifyNothing == [][layer' = layer]_vars

\* no key of the layer's field map contains name, or the part of name before its
\* first '.', whatever the case of the letters and whichever of '.', '-' and '_'
\* separates the parts of the key
NowhereIn(l, name) ==
    \A k \in DOMAIN FieldMapOf(l) :
        ~Contains(ToLower(Underscored(k)), ToLower(Underscored(Split(name, Dot)[1])))

\* C17: for a name absent from the layer GetField returns nil, HasField false and Get
\* its default, and for a name that is a key of the layer Get returns what GetField
\* returns; no call panics
C17_AbsentFieldLookups ==
    out # NoKey =>
        /\ out.res # PanicV
        /\ NowhereIn(layer, out.name) =>
              CASE out.op = "GetField" -> out.res = NilV
                [] out.op = "HasField" -> out.res = BoolV(FALSE)
                [] out.op = "Get" -> out.res = DefaultV
                [] OTHER -> TRUE
        /\ (out.op = "Get" /\ out.name \in DOMAIN FieldMapOf(layer)) =>
              out.res \in {o.res : o \in DoGetField(layer, out.name)}

\* the keys of a layer blob
BlobKeys(item) == DOMAIN BlobFields(item)

\* C19: a JSONLayer built from an array of n >= 1 blobs has the fields of element 0,
\* and n-1 duplicate layers that have the fields of elements 1..n-1 in array order;
\* GetField of a name that is a key of a later element and occurs nowhere in the keys
\* of element 0 returns nil
C19_ArrayDuplicates ==
    (inp.variant = "json" /\ inp.data.kind = "list" /\ Len(inp.data.l) >= 1) =>
        LET blobs == inp.data.l
        IN /\ layer.Fields = BlobFields(blobs[1])
           /\ Len(layer.DuplicateLayers) = Len(blobs) - 1
           /\ \A i \in 1..(Len(blobs) - 1) :
                /\ layer.DuplicateLayers[i].Fields = BlobFields(blobs[i + 1])
                /\ layer.DuplicateLayers[i].Value = BlobValue(blobs[i + 1])
                /\ layer.DuplicateLayers[i].DuplicateLayers = <<>>
           /\ (/\ out # NoKey
               /\ out.op = "GetField"
               /\ \E j \in 2..Len(blobs) : out.name \in BlobKeys(blobs[j])
               /\ NowhereIn(layer, out.name))
              => out.res = NilV

\* GetField("opt") was called on a layer built from [{ip.src}, {ip.src, opt}] and
\* returned nil; the layer has one duplicate
C19_Witness ==
    /\ inp.variant = "json"
    /\ inp.data = ListV(<<MapV(IpSrc :> StrV(A)),
                          MapV((IpSrc :> StrV(A)) @@ (Opt :> MapV(X :> StrV(A))))>>)
    /\ Len(layer.DuplicateLayers) = 1
    /\ out = Returned("GetField", Opt, NilV)

-----------------------------------------------------------------------------
(* SpecField: GetDefaultValue of a packet.LayerField, of a                   *)
(* packet.LayerFieldsContainer and of a layers.LayerFieldsContainer         *)

\* packet.LayerField (NewLayerField), the attributes GetDefaultValue reads
LayerField(name, showname, value, show) ==
    [Name |-> name, Showname |-> showname, RawValue |-> value, Show |-> show]

\* (packet) LayerField.GetDefaultValue
GetDefaultValue(f) ==
    IF f.Show # <<>> THEN f.Show
    ELSE IF f.RawValue # <<>> THEN f.RawValue
    ELSE IF f.Showname # <<>> THEN f.Showname
    ELSE <<>>

\* (packet) LayerFieldsContainer.GetMainField, nil for an empty container
GetMainField(c) == IF Len(c.Fields) > 0 THEN c.Fields[1] ELSE NilV

\* (packet) LayerFieldsContainer.GetDefaultValue
ContainerGetDefaultValue(c) ==
    IF GetMainField(c) # NilV THEN GetDefaultValue(GetMainField(c)) ELSE <<>>

\* the layers.LayerField with the name, showname and raw value of f
ToXLayerField(f) == XLayerField(f.Name, f.Showname, f.RawValue)

\* the fields of SpecField: show, value and showname each empty or not
ShowTexts == {<<>>, <<115>>}
ValueTexts == {<<>>, <<118>>}
ShownameTexts == {<<>>, <<110>>}
FieldsUnderTest ==
    {LayerField(IpSrc, n, v, s) : n \in ShownameTexts, v \in ValueTexts, s \in ShowTexts}

InitField ==
    /\ KeyIdle /\ SessionIdle /\ TrackerIdle /\ ConcIdle
    /\ inp \in {ContainerV(fs) : fs \in SeqsOf(FieldsUnderTest, 1, MaxContained)}
    /\ layer = NoKey
    /\ out = NoKey

\* inp.GetMainField().GetDefaultValue()
CallFieldDefault ==
    /\ out' = Returned("LayerField.GetDefaultValue", <<>>,
                       StrV(GetDefaultValue(GetMainField(inp))))
    /\ UNCHANGED <<keyVars, sess, trackerVars, fed, concVars, inp, layer>>

\* inp.GetDefaultValue()
CallContainerDefault ==
    /\ out' = Returned("packet.LayerFieldsContainer.GetDefaultValue", <<>>,
                       StrV(ContainerGetDefaultValue(inp)))
    /\ UNCHANGED <<keyVars, sess, trackerVars, fed, concVars, inp, layer>>

\* GetDefaultValue() of the layers.LayerFieldsContainer holding the same fields
CallXContainerDefault ==
    /\ out' = Returned("layers.LayerFieldsContainer.GetDefaultValue", <<>>,
                       StrV(XGetDefaultValue(
                           ContainerV([i \in 1..Len(inp.Fields) |->
                                          ToXLayerField(inp.Fields[i])]))))
    /\ UNCHANGED <<keyVars, sess, trackerVars, fed, concVars, inp, layer>>

NextField == CallFieldDefault \/ CallContainerDefault \/ CallXContainerDefault

SpecField == InitField /\ [][NextField]_vars

\* show if it is not empty, else rawValue if it is not empty, else showname
DefaultByPrecedence(show, rawValue, showname) ==
    CASE show # <<>> -> show
      [] show = <<>> /\ rawValue # <<>> -> rawValue
      [] show = <<>> /\ rawValue = <<>> -> showname

\* C18: a field's DefaultValue is show, else rawValue, else showname, else empty, and
\* a container's DefaultValue is that of its main field; for a container of package
\* layers, whose fields have no show, this is stated for main fields with empty show
C18_DefaultValuePrecedence ==
    out # NoKey =>
        LET main == inp.Fields[1]
            expected == StrV(DefaultByPrecedence(main.Show, main.RawValue, main.Showname))
        IN IF out.op = "layers.LayerFieldsContainer.GetDefaultValue"
           THEN main.Show = <<>> => out.res = expected
           ELSE out.res = expected

-----------------------------------------------------------------------------
(* The parsers: Packet.UnmarshalJSON, EKParser.convertEKDocument and         *)
(* XMLParser.convertPDMLPacket                                              *)

\* layer names and field names of the documents
Frame == <<102, 114, 97, 109, 101>>
FrameRaw == Frame \o Underscore \o <<114, 97, 119>>
FrameNumber == Frame \o Dot \o <<110, 117, 109, 98, 101, 114>>
FrameLen == Frame \o Dot \o <<108, 101, 110>>
FrameCapLen == Frame \o Dot \o <<99, 97, 112, 95, 108, 101, 110>>
FrameTimeEpoch == Frame \o Dot \o <<116, 105, 109, 101, 95, 101, 112, 111, 99, 104>>
FrameTime == Frame \o Dot \o <<116, 105, 109, 101>>
FrameOffset == Frame \o Dot \o <<111, 102, 102, 115, 101, 116>>
ValueKey == <<118, 97, 108, 117, 101>>
PosKey == <<112, 111, 115>>
SizeKey == <<115, 105, 122, 101>>
ShownameKey == <<115, 104, 111, 119, 110, 97, 109, 101>>

\* an int held in an interface{}
IntV(n) == [kind |-> "int", n |-> n]

\* the Packet a parser fills in, before any field is set
EmptyPacket ==
    [Layers |-> <<>>, FrameNumber |-> <<>>, FrameLen |-> <<>>, FrameCapLen |-> <<>>,
     FrameTimeEpoch |-> <<>>, FrameTime |-> <<>>, RawData |-> NilV]

\* the result of a parse
Parsed(err, pkt) == [err |-> err, pkt |-> pkt]

\* strconv.Atoi for texts of the form [+-]digits that fit an int: [err, n]
Atoi(s) ==
    LET signed == s # <<>> /\ s[1] \in {43, 45}
        digits == IF signed THEN Tail(s) ELSE s
    IN IF digits = <<>> \/ ~IsDigits(digits) THEN [err |-> TRUE, n |-> 0]
       ELSE [err |-> FALSE,
             n |-> IF signed /\ s[1] = 45 THEN 0 - DecValue(digits) ELSE DecValue(digits)]

\* hex.DecodeString: [err, bytes]
HexDigit(c) ==
    CASE c \in 48..57 -> c - 48
      [] c \in 97..102 -> c - 87
      [] c \in 65..70 -> c - 55
      [] OTHER -> -1
HexDecodeString(s) ==
    IF Len(s) % 2 = 1 \/ \E i \in 1..Len(s) : HexDigit(s[i]) < 0
    THEN [err |-> TRUE, bytes |-> <<>>]
    ELSE [err |-> FALSE,
          bytes |-> [i \in 1..(Len(s) \div 2) |->
                        16 * HexDigit(s[2 * i - 1]) + HexDigit(s[2 * i])]]

\* strings.Replace(s, old, "", -1) for a one-byte old
RECURSIVE RemoveByte(_, _)
RemoveByte(s, old) ==
    IF s = <<>> THEN <<>>
    ELSE IF Head(s) = old[1] THEN RemoveByte(Tail(s), old)
    ELSE <<Head(s)>> \o RemoveByte(Tail(s), old)

\* the names of a sequence of layers
LayerNames(layers) == [i \in 1..Len(layers) |-> layers[i].Name]

\* sort.Strings: the sorted sequence of the strings of the set S
RECURSIVE SortStrings(_)
SortStrings(S) ==
    IF S = {} THEN <<>>
    ELSE LET least == CHOOSE x \in S : \A y \in S : x = y \/ StrLess(x, y)
         IN <<least>> \o SortStrings(S \ {least})

(* Packet.UnmarshalJSON *)

\* json.Unmarshal of a blob into a map[string]interface{}: an object decodes, null
\* leaves the map nil, anything else is an error
DecodeMap(blob) ==
    CASE blob.kind = "map" -> [err |-> FALSE, fields |-> blob.m]
      [] blob.kind = "nil" -> [err |-> FALSE, fields |-> <<>>]
      [] OTHER -> [err |-> TRUE, fields |-> <<>>]

\* json.Unmarshal into a field of type []struct{ Value string; ... }: the value must
\* be null or an array of objects (or nulls) whose known members are strings
DecodesAsStructList(v) ==
    \/ v.kind = "nil"
    \/ /\ v.kind = "list"
       /\ \A i \in 1..Len(v.l) :
            \/ v.l[i].kind = "nil"
            \/ /\ v.l[i].kind = "map"
               /\ \A k \in DOMAIN v.l[i].m \cap {ValueKey, PosKey, SizeKey, ShownameKey} :
                    v.l[i].m[k].kind \in {"string", "nil"}

\* the members of the frame struct of UnmarshalJSON
FrameStructKeys ==
    {FrameNumber, FrameLen, FrameCapLen, FrameTimeEpoch, FrameTime, FrameOffset}

\* json.Unmarshal(frameRaw, &frameLayer) succeeds
FrameStructDecodes(blob) ==
    \/ blob.kind = "nil"
    \/ /\ blob.kind = "map"
       /\ \A k \in DOMAIN blob.m \cap FrameStructKeys : DecodesAsStructList(blob.m[k])

\* the string member k of element i of the decoded list under key, "" when missing
StructMember(blob, name, i, member) ==
    LET e == blob.m[name].l[i]
    IN IF e.kind = "map" /\ member \in DOMAIN e.m /\ e.m[member].kind = "string"
       THEN e.m[member].s ELSE <<>>

\* the length of the decoded list under key
StructListLen(blob, name) ==
    IF blob.kind = "map" /\ name \in DOMAIN blob.m /\ blob.m[name].kind = "list"
    THEN Len(blob.m[name].l) ELSE 0

\* frameLayer.<key>[0].Value when the list is not empty, else the value before
FirstValue(blob, name, before) ==
    IF StructListLen(blob, name) > 0 THEN StructMember(blob, name, 1, ValueKey) ELSE before

\* a FieldOffset as UnmarshalJSON builds it
ParsedOffset(start, length, name, showname) ==
    [Start |-> start, Length |-> length, Name |-> name, Showname |-> showname]

\* the offsets map built from frame.offset: every entry is stored under the key
\* "frame.offset", so the last one stays
FrameOffsets(blob) ==
    LET n == StructListLen(blob, FrameOffset)
    IN FrameOffset :>
         ParsedOffset(Atoi(StructMember(blob, FrameOffset, n, PosKey)).n,
                      Atoi(StructMember(blob, FrameOffset, n, SizeKey)).n,
                      FrameOffset,
                      StructMember(blob, FrameOffset, n, ShownameKey))

\* the frame_raw step: RawData after it
RawDataFrom(layers) ==
    IF FrameRaw \notin DOMAIN layers THEN NilV
    ELSE LET blob == layers[FrameRaw]
             decodes == \/ blob.kind = "nil"
                        \/ /\ blob.kind = "map"
                           /\ (ValueKey \in DOMAIN blob.m =>
                                 blob.m[ValueKey].kind \in {"string", "nil"})
             value == IF blob.kind = "map" /\ ValueKey \in DOMAIN blob.m
                         /\ blob.m[ValueKey].kind = "string"
                      THEN blob.m[ValueKey].s ELSE <<>>
             rawData == HexDecodeString(RemoveByte(value, Colon))
         IN IF decodes /\ value # <<>> /\ ~rawData.err
            THEN BytesV(rawData.bytes) ELSE NilV

\* the loop over the sorted names other than "frame", from position i on: it ends
\* at the first blob that is not an object
RECURSIVE DecodeOtherLayers(_, _, _, _)
DecodeOtherLayers(layers, layerNames, i, p) ==
    IF i > Len(layerNames) THEN Parsed(FALSE, p)
    ELSE LET d == DecodeMap(layers[layerNames[i]])
         IN IF d.err THEN Parsed(TRUE, p)
            ELSE DecodeOtherLayers(layers, layerNames, i + 1,
                    [p EXCEPT !.Layers =
                        Append(@, LayerAt(layerNames[i], d.fields, <<>>, 0, 0))])

\* Packet.UnmarshalJSON on a document doc = [index, layers]
UnmarshalJSON(doc) ==
    IF doc.index \notin {"object", "null"} THEN Parsed(TRUE, EmptyPacket)
    ELSE
    LET layers == doc.layers
        p0 == [EmptyPacket EXCEPT !.RawData = RawDataFrom(layers)]
        frameRaw == layers[Frame]
        typed == Frame \in DOMAIN layers /\ FrameStructDecodes(frameRaw)
        p1 == IF ~typed THEN p0
              ELSE [p0 EXCEPT
                      !.FrameNumber = FirstValue(frameRaw, FrameNumber, @),
                      !.FrameLen = FirstValue(frameRaw, FrameLen, @),
                      !.FrameCapLen = FirstValue(frameRaw, FrameCapLen, @),
                      !.FrameTimeEpoch = FirstValue(frameRaw, FrameTimeEpoch, @),
                      !.FrameTime = FirstValue(frameRaw, FrameTime, @)]
        frameFields == IF Frame \in DOMAIN layers THEN DecodeMap(frameRaw).fields ELSE <<>>
    IN IF typed /\ StructListLen(frameRaw, FrameOffset) > 0
       THEN Parsed(FALSE,
                   [p1 EXCEPT !.Layers =
                       <<LayerAt(Frame, frameFields, FrameOffsets(frameRaw), 0, 0)>>])
       ELSE LET p2 == IF Frame \in DOMAIN layers
                      THEN [p1 EXCEPT !.Layers =
                               <<LayerAt(Frame, frameFields, <<>>, 0, 0)>>]
                      ELSE p1
            IN DecodeOtherLayers(layers, SortStrings(DOMAIN layers \ {Frame}), 1, p2)

(* EKParser.convertEKDocument *)

\* a time.Time in UTC
Time(year, month, day, hour, minute, second) ==
    [year |-> year, month |-> month, day |-> day,
     hour |-> hour, minute |-> minute, second |-> second]

\* the zero time.Time, which a document without a timestamp decodes to
ZeroTime == Time(1, 1, 1, 0, 0, 0)

\* n in decimal, zero-padded to w digits
Padded(n, w) == [i \in 1..w |-> 48 + ((n \div (10 ^ (w - i))) % 10)]

\* t.Format(time.RFC3339) of a UTC time
FormatRFC3339(t) ==
    Padded(t.year, 4) \o Dash \o Padded(t.month, 2) \o Dash \o Padded(t.day, 2)
    \o <<84>> \o Padded(t.hour, 2) \o Colon \o Padded(t.minute, 2) \o Colon
    \o Padded(t.second, 2) \o <<90>>

\* frameLayer[name].(string), the value before when the assertion fails
StringMember(fields, name, before) ==
    IF name \in DOMAIN fields /\ fields[name].kind = "string" THEN fields[name].s
    ELSE before

\* EKParser.convertEKLayer of a blob that decodes: nested objects become layers
ConvertEKLayer(layerName, layerData) ==
    LET fields == DecodeMap(layerData).fields
    IN LayerAt(layerName,
               [fieldName \in DOMAIN fields |->
                   IF fields[fieldName].kind = "map"
                   THEN LayerV(LayerAt(layerName \o Dot \o fieldName,
                                       fields[fieldName].m, <<>>, 0, 0))
                   ELSE fields[fieldName]],
               <<>>, 0, 0)

\* EKParser.convertEKDocument when the range over doc.Source.Layers visits the
\* names in the order ord
ConvertEKDocument(doc, ord) ==
    LET layers == doc.layers
        p0 == [EmptyPacket EXCEPT !.FrameTime = FormatRFC3339(doc.timestamp)]
        frameLayer == DecodeMap(layers[Frame])
        p1 == IF Frame \notin DOMAIN layers THEN p0
              ELSE [p0 EXCEPT
                      !.FrameNumber = StringMember(frameLayer.fields, FrameNumber, @),
                      !.FrameLen = StringMember(frameLayer.fields, FrameLen, @),
                      !.FrameCapLen = StringMember(frameLayer.fields, FrameCapLen, @),
                      !.FrameTimeEpoch =
                          StringMember(frameLayer.fields, FrameTimeEpoch, @)]
    IN IF Frame \in DOMAIN layers /\ frameLayer.err THEN Parsed(TRUE, EmptyPacket)
       ELSE IF \E i \in 1..Len(ord) : DecodeMap(layers[ord[i]]).err
       THEN Parsed(TRUE, EmptyPacket)
       ELSE Parsed(FALSE,
                   [p1 EXCEPT !.Layers =
                       [i \in 1..Len(ord) |-> ConvertEKLayer(ord[i], layers[ord[i]])]])

(* XMLParser.convertPDMLPacket *)

PDMLField(name, showname, value, show, pos, size, fields) ==
    [Name |-> name, Showname |-> showname, Value |-> value, Show |-> show,
     Pos |-> pos, Size |-> size, Fields |-> fields]
PDMLProto(name, fields) == [Name |-> name, Fields |-> fields]

UnderValue == Underscore \o ValueKey
UnderPos == Underscore \o PosKey
UnderSize == Underscore \o SizeKey

\* m with the entries of n put over it
MapMerge(m, n) ==
    [x \in DOMAIN m \cup DOMAIN n |-> IF x \in DOMAIN n THEN n[x] ELSE m[x]]

\* XMLParser.convertPDMLField: the Fields of the layer after the call
RECURSIVE ConvertPDMLField(_, _, _)
RECURSIVE ConvertNested(_, _, _, _)
ConvertNested(nestedFields, children, i, includeRaw) ==
    IF i > Len(children) THEN nestedFields
    ELSE ConvertNested(MapMerge(nestedFields,
                                ConvertPDMLField(<<>>, children[i], includeRaw)),
                       children, i + 1, includeRaw)
ConvertPDMLField(fields, pdmlField, includeRaw) ==
    LET value == IF pdmlField.Show = <<>> THEN pdmlField.Value ELSE pdmlField.Show
        stored ==
            IF Len(pdmlField.Fields) > 0
            THEN MapV(ConvertNested(IF value # <<>> THEN UnderValue :> StrV(value)
                                    ELSE <<>>,
                                    pdmlField.Fields, 1, includeRaw))
            ELSE StrV(value)
        f1 == MapPut(fields, pdmlField.Name, stored)
        raw == includeRaw /\ pdmlField.Pos # <<>> /\ pdmlField.Size # <<>>
        pos == Atoi(pdmlField.Pos)
        size == Atoi(pdmlField.Size)
        f2 == IF raw /\ ~pos.err
              THEN MapPut(f1, pdmlField.Name \o UnderPos, IntV(pos.n)) ELSE f1
    IN IF raw /\ ~size.err
       THEN MapPut(f2, pdmlField.Name \o UnderSize, IntV(size.n)) ELSE f2

\* XMLParser.convertPDMLProto: the fields are converted in document order
RECURSIVE ConvertProtoFields(_, _, _, _)
ConvertProtoFields(fields, pdmlFields, i, includeRaw) ==
    IF i > Len(pdmlFields) THEN fields
    ELSE ConvertProtoFields(ConvertPDMLField(fields, pdmlFields[i], includeRaw),
                            pdmlFields, i + 1, includeRaw)
ConvertPDMLProto(pdmlProto, includeRaw) ==
    LayerAt(pdmlProto.Name,
            ConvertProtoFields(<<>>, pdmlProto.Fields, 1, includeRaw), <<>>, 0, 0)

\* XMLParser.extractFrameInfo
RECURSIVE ExtractFrameInfo(_, _, _)
ExtractFrameInfo(pkt, pdmlFields, i) ==
    IF i > Len(pdmlFields) THEN pkt
    ELSE LET f == pdmlFields[i]
             next == CASE f.Name = FrameTimeEpoch -> [pkt EXCEPT !.FrameTimeEpoch = f.Show]
                       [] f.Name = FrameTime -> [pkt EXCEPT !.FrameTime = f.Show]
                       [] f.Name = FrameLen -> [pkt EXCEPT !.FrameLen = f.Show]
                       [] f.Name = FrameCapLen -> [pkt EXCEPT !.FrameCapLen = f.Show]
                       [] OTHER -> pkt
         IN ExtractFrameInfo(next, pdmlFields, i + 1)

\* XMLParser.convertPDMLPacket: the layers in document order
RECURSIVE ConvertProtos(_, _, _, _)
ConvertProtos(pkt, protos, i, includeRaw) ==
    IF i > Len(protos) THEN pkt
    ELSE LET added == [pkt EXCEPT !.Layers =
                          Append(@, ConvertPDMLProto(protos[i], includeRaw))]
         IN ConvertProtos(IF protos[i].Name = Frame
                          THEN ExtractFrameInfo(added, protos[i].Fields, 1)
                          ELSE added,
                          protos, i + 1, includeRaw)
ConvertPDMLPacket(doc) ==
    Parsed(FALSE, ConvertProtos([EmptyPacket EXCEPT !.FrameNumber = doc.num],
                                doc.protos, 1, doc.includeRaw))

(* The documents parsed and the specification of the parsers *)

Eth == <<101, 116, 104>>
One1 == <<49>>
Four == <<52>>
Five == <<53>>
HexA == <<48, 97>>
HexB == <<48, 98>>
NotHex == <<122, 122>>
ColonHex == HexA \o Colon \o HexB

\* the maps from some of the names to a blob each, blobsFor(k) being those of k
LayerMaps(names, blobsFor(_)) ==
    UNION {{m \in [D -> UNION {blobsFor(k) : k \in D}] : \A k \in D : m[k] \in blobsFor(k)}
           : D \in SUBSET names}

\* the blobs of a tshark -T json document: a frame object in the form the frame
\* struct expects, with and without field offsets, in the plain form, and a
\* blob that is no object
JSONFrameBlobs ==
    {MapV(<<>>),
     MapV(FrameNumber :> StrV(One1)),
     MapV(FrameTimeEpoch :> ListV(<<MapV(ValueKey :> StrV(Five))>>)),
     MapV(FrameOffset :> ListV(<<MapV(PosKey :> StrV(<<48>>) @@ SizeKey :> StrV(One1))>>)),
     StrV(X)}
JSONBlobsFor(name) ==
    CASE name = Frame -> JSONFrameBlobs
      [] name = FrameRaw -> {MapV(ValueKey :> StrV(ColonHex)), MapV(ValueKey :> StrV(NotHex))}
      [] name = IP -> {MapV(IpSrc :> StrV(A)), ListV(<<>>)}
      [] OTHER -> {MapV(<<>>)}
JSONDocuments ==
    {[format |-> "json", index |-> index, layers |-> m]
       : index \in {"absent", "string", "null", "object"},
         m \in LayerMaps({Frame, FrameRaw, Eth, IP}, JSONBlobsFor)}

\* the blobs of a tshark -T ek document
EKBlobsFor(name) ==
    CASE name = Frame -> {MapV(<<>>), MapV(FrameNumber :> StrV(One1) @@ FrameLen :> StrV(Four)),
                          MapV(FrameTimeEpoch :> StrV(Five) @@ FrameCapLen :> StrV(Four)),
                          StrV(X)}
      [] name = IP -> {MapV(IpSrc :> StrV(A)), MapV(Opt :> MapV(X :> StrV(A))), ListV(<<>>)}
      [] OTHER -> {MapV(<<>>)}
EKDocuments ==
    {[format |-> "ek", timestamp |-> t, layers |-> m]
       : t \in {ZeroTime, Time(2024, 1, 2, 3, 4, 5)},
         m \in LayerMaps({Frame, Eth, IP}, EKBlobsFor)}

\* the <field> elements of an ip <proto>, one of them with a nested <field>
IPFields ==
    {PDMLField(IpSrc, <<>>, HexA, A, <<48>>, Four, <<>>),
     PDMLField(IpSrc, <<>>, HexB, <<>>, <<>>, <<>>, <<>>),
     PDMLField(IpSrc, <<>>, HexB, B, <<>>, <<>>, <<>>),
     PDMLField(Opt, <<>>, <<>>, B, <<>>, <<>>,
               <<PDMLField(OptX, <<>>, HexA, A, One1, Dash, <<>>)>>)}
\* the <field> elements of a frame <proto>
FrameFields ==
    {PDMLField(FrameTimeEpoch, <<>>, <<>>, Five, <<>>, <<>>, <<>>),
     PDMLField(FrameTime, <<>>, <<>>, A, <<>>, <<>>, <<>>),
     PDMLField(FrameLen, <<>>, <<>>, Four, <<>>, <<>>, <<>>),
     PDMLField(FrameCapLen, <<>>, <<>>, Four, <<>>, <<>>, <<>>),
     PDMLField(FrameNumber, <<>>, <<>>, One1, <<>>, <<>>, <<>>)}
PDMLProtos ==
    {PDMLProto(Frame, fs) : fs \in SeqsOf(FrameFields, 0, 1)}
    \cup {PDMLProto(Frame, <<PDMLField(FrameLen, <<>>, <<>>, Four, <<>>, <<>>, <<>>),
                             PDMLField(FrameLen, <<>>, <<>>, Five, <<>>, <<>>, <<>>)>>)}
    \cup {PDMLProto(IP, fs) : fs \in SeqsOf(IPFields, 0, MaxProtoFields)}
    \cup {PDMLProto(Eth, <<>>)}
XMLDocuments ==
    {[format |-> "xml", num |-> num, includeRaw |-> includeRaw, protos |-> ps]
       : num \in {<<>>, One1}, includeRaw \in BOOLEAN,
         ps \in SeqsOf(PDMLProtos, 0, MaxProtos)}

\* a document is given; every parse of it is appended to out
InitParse ==
    /\ KeyIdle /\ SessionIdle /\ TrackerIdle /\ ConcIdle
    /\ inp \in JSONDocuments \cup EKDocuments \cup XMLDocuments
    /\ layer = NoKey
    /\ out = <<>>

\* json.Unmarshal(data, &packet)
ParseJSON ==
    /\ inp.format = "json"
    /\ Len(out) < MaxParses
    /\ out' = Append(out, UnmarshalJSON(inp))
    /\ UNCHANGED <<keyVars, sess, trackerVars, fed, concVars, inp, layer>>

\* EKParser.convertEKDocument(doc), the map being ranged over in any order
ParseEK ==
    /\ inp.format = "ek"
    /\ Len(out) < MaxParses
    /\ \E ord \in Orderings(DOMAIN inp.layers) :
         out' = Append(out, ConvertEKDocument(inp, ord))
    /\ UNCHANGED <<keyVars, sess, trackerVars, fed, concVars, inp, layer>>

\* XMLParser.convertPDMLPacket(pdmlPacket)
ParseXML ==
    /\ inp.format = "xml"
    /\ Len(out) < MaxParses
    /\ out' = Append(out, ConvertPDMLPacket(inp))
    /\ UNCHANGED <<keyVars, sess, trackerVars, fed, concVars, inp, layer>>

NextParse == ParseJSON \/ ParseEK \/ ParseXML

SpecParse == InitParse /\ [][NextParse]_vars

\* the names from position i on are in strictly increasing byte order
SortedFrom(names, i) ==
    \A j \in i..Len(names), k \in i..Len(names) : j < k => StrLess(names[j], names[k])

\* C15: a JSON packet whose layers object has a frame entry decodes to the frame
\* layer at index 0 followed by exactly one layer for every other key of the
\* layers object, in lexicographic key order.
C15_JSONFrameThenEveryOtherKey ==
    inp.format = "json" /\ Frame \in DOMAIN inp.layers =>
        \A i \in 1..Len(out) :
            ~out[i].err =>
                LET names == LayerNames(out[i].pkt.Layers)
                    others == DOMAIN inp.layers \ {Frame}
                IN /\ Len(names) = 1 + Cardinality(others)
                   /\ names[1] = Frame
                   /\ {names[j] : j \in 2..Len(names)} = others
                   /\ SortedFrom(names, 2)

\* the frame layer is first when there is one and the layers after it (all of
\* them when there is none) are sorted by name
FrameFirstRestSorted(names) ==
    LET hasFrame == \E i \in 1..Len(names) : names[i] = Frame
    IN /\ hasFrame => names[1] = Frame
       /\ SortedFrom(names, IF hasFrame THEN 2 ELSE 1)

\* C16: for each of the three parsers the Layers of every produced Packet list
\* the frame layer first when present and the remaining layers sorted by name,
\* and two parses of the same input yield the same layer sequence.
C16_LayerOrderDeterministic ==
    /\ \A i \in 1..Len(out) :
         ~out[i].err => FrameFirstRestSorted(LayerNames(out[i].pkt.Layers))
    /\ \A i, j \in 1..Len(out) :
         ~out[i].err /\ ~out[j].err => out[i].pkt.Layers = out[j].pkt.Layers

\* the values kept under one name of a layer, in order
KeptUnder(v) ==
    IF v.kind = "container" THEN v.Fields
    ELSE IF v.kind = "list" THEN v.l
    ELSE <<v>>

\* the positions of the <field> elements named name among pdmlFields
FieldPositions(pdmlFields, name) ==
    {i \in 1..Len(pdmlFields) : pdmlFields[i].Name = name}

\* C20: when a <proto> has k >= 2 <field> elements of one name, the layer
\* produced for it keeps all k under that name in document order, the first
\* being the main field; a later occurrence never overwrites an earlier one.
C20_RepeatedFieldsKept ==
    inp.format = "xml" =>
        \A r \in 1..Len(out), i \in 1..Len(inp.protos) :
            \A n \in {inp.protos[i].Fields[j].Name : j \in 1..Len(inp.protos[i].Fields)} :
                LET occ == FieldPositions(inp.protos[i].Fields, n)
                    first == CHOOSE j \in occ : \A k \in occ : j <= k
                    kept == KeptUnder(out[r].pkt.Layers[i].Fields[n])
                IN Cardinality(occ) >= 2 =>
                     /\ Len(kept) = Cardinality(occ)
                     /\ kept[1] = ConvertPDMLField(<<>>, inp.protos[i].Fields[first],
                                                   inp.includeRaw)[n]

\* C21: a PDML <field> carrying both a show and a value attribute yields a layer on
\* which GetField(<the field's name>) returns a field container whose default
\* value equals the show attribute, not the raw value.
C21_ShowIsDefaultValue ==
    inp.format = "xml" =>
        \A r \in 1..Len(out), i \in 1..Len(inp.protos) :
            \A j \in 1..Len(inp.protos[i].Fields) :
                LET f == inp.protos[i].Fields[j]
                    got == GetField(out[r].pkt.Layers[i], f.Name)
                IN f.Show # <<>> /\ f.Value # <<>> =>
                     /\ got.kind = "container"
                     /\ XGetDefaultValue(got) = f.Show

-----------------------------------------------------------------------------
(* EK field lookup, under SpecLayers *)

\* the last call was GetField on an EKLayer
EKGetFieldReturned ==
    out # NoKey /\ VariantOf(layer) = "ek" /\ out.op = "GetField"

\* the key <candidate>_<name> of the claim, dots of the name written as underscores
CandidateKey(candidate, name) ==
    candidate \o Underscore \o ReplaceByte(name, Dot, Underscore)

\* some key of the layer begins with <candidate>_<name>_
KeyBeginsWith(l, candidate, name) ==
    \E k \in DOMAIN l.FieldsDict :
        HasPrefix(k, CandidateKey(candidate, name) \o Underscore)

\* what one candidate resolves the name to: a multi-field wrapper when some key
\* begins with <candidate>_<name>_, else the value stored under
\* <candidate>_<name>, else nil
CandidateResult(l, candidate, name) ==
    LET ck == CandidateKey(candidate, name)
        stored == IF ck \in DOMAIN l.FieldsDict THEN l.FieldsDict[ck] ELSE NilV
    IN IF KeyBeginsWith(l, candidate, name)
       THEN EKMultiField(ReplaceByte(name, Dot, Underscore), stored)
       ELSE stored

\* the first position of the candidates that satisfies Hit, 0 when none does
FirstCandidate(l, Hit(_)) ==
    LET hits == {i \in 1..Len(EKPrefixes(l)) : Hit(EKPrefixes(l)[i])}
    IN IF hits = {} THEN 0 ELSE CHOOSE i \in hits : \A j \in hits : i <= j

\* C22 as stated: the first candidate for which <candidate>_<name> is a key or
\* some key begins with <candidate>_<name>_ decides the result of GetField(name),
\* the stored value or a multi-field wrapper, and the result is nil when no
\* candidate matches either way.
C22_PrefixCandidatesOnly ==
    EKGetFieldReturned =>
        LET Matches(c) == \/ CandidateKey(c, out.name) \in DOMAIN layer.FieldsDict
                          \/ KeyBeginsWith(layer, c, out.name)
            first == FirstCandidate(layer, Matches)
        IN out.res = IF first = 0 THEN NilV
                     ELSE CandidateResult(layer, EKPrefixes(layer)[first], out.name)

\* C22 amended: GetField(name) returns the value stored under the name itself
\* (dots written as underscores) when that is a key; otherwise the first
\* candidate that resolves the name to something other than nil decides, giving
\* the value stored under <candidate>_<name> when no key begins with
\* <candidate>_<name>_ and a multi-field wrapper when some key does, and the
\* result is nil when no candidate resolves the name.
C22_DirectThenPrefixCandidates ==
    EKGetFieldReturned =>
        LET direct == ReplaceByte(out.name, Dot, Underscore)
            Resolves(c) == CandidateResult(layer, c, out.name) # NilV
            first == FirstCandidate(layer, Resolves)
        IN out.res = IF direct \in DOMAIN layer.FieldsDict THEN layer.FieldsDict[direct]
                     ELSE IF first = 0 THEN NilV
                     ELSE CandidateResult(layer, EKPrefixes(layer)[first], out.name)

\* GetField("src") on the layer ip with keys ip_src and ip_dst gave the value of
\* ip_src
C22_Witness ==
    /\ EKGetFieldReturned
    /\ DOMAIN layer.FieldsDict = {IpUSrc, IpUDst}
    /\ out.name = Src
    /\ out.res = layer.FieldsDict[IpUSrc]
    /\ out.res # NilV

-----------------------------------------------------------------------------
(* Documents without a frame layer, under SpecParse *)

\* the document has a frame layer
HasFrameLayer(doc) ==
    IF doc.format = "xml" THEN \E i \in 1..Len(doc.protos) : doc.protos[i].Name = Frame
    ELSE Frame \in DOMAIN doc.layers

\* every layer of the document is well formed: an object, under an _index object
WellFormed(doc) ==
    \/ doc.format = "xml"
    \/ /\ \A k \in DOMAIN doc.layers : doc.layers[k].kind = "map"
       /\ doc.format = "json" => doc.index = "object"

\* C23: for each parser, a packet without a frame layer still yields a Packet with
\* FrameNumber, FrameLen, FrameCapLen, FrameTime and FrameTimeEpoch all empty and
\* no raw byte buffer, and SniffTime() on it returns the "not available" error.
C23_NoFrameLayerDegrades ==
    ~HasFrameLayer(inp) =>
        \A r \in 1..Len(out) :
            /\ WellFormed(inp) => ~out[r].err
            /\ ~out[r].err =>
                 /\ out[r].pkt.FrameNumber = <<>>
                 /\ out[r].pkt.FrameLen = <<>>
                 /\ out[r].pkt.FrameCapLen = <<>>
                 /\ out[r].pkt.FrameTime = <<>>
                 /\ out[r].pkt.FrameTimeEpoch = <<>>
                 /\ out[r].pkt.RawData = NilV
                 /\ SniffTime(out[r].pkt).err

-----------------------------------------------------------------------------
(* More claims about one Session (SpecSession) *)

\* C24: after any sequence of Session.AddPacket calls with arbitrary sniff times,
\* Started is never greater than Ended once both are set, so GetDuration() is
\* never negative.
C24_DurationNeverNegative ==
    /\ (sess.Started # 0 /\ sess.Ended # 0) => sess.Started <= sess.Ended
    /\ GetDuration(sess) >= 0

\* the states the claim lists
ListedStates ==
    {"new", "syn_sent", "syn_received", "established", "fin_wait_1", "closing", "closed"}

\* C25: after any sequence of AddPacket calls a Session's State is one of new,
\* syn_sent, syn_received, established, fin_wait_1, closing, closed; fin_wait_2 is
\* never reached.
C25_StatesListed == sess.State \in ListedStates /\ sess.State # "fin_wait_2"

\* two FIN packets were added and the session went through fin_wait_1 to closing
C25_Witness ==
    /\ Len(sess.Packets) = 2
    /\ FlagsAre(sess.Packets[1], {FIN})
    /\ FlagsAre(sess.Packets[2], {FIN})
    /\ sess.State = "closing"

\* C28: a Session is in state established only if a packet whose flags contain
\* both SYN and ACK was added to it earlier, and every transition into
\* established is taken from syn_received.
C28_EstablishedOnlyAfterSynAck ==
    /\ [](sess.State = "established" =>
            \E i \in 1..Len(sess.Packets) : \E j \in (i + 1)..Len(sess.Packets) :
                /\ IsSynAck(sess.Packets[i])
                /\ HasFlag(sess.Packets[j], ACK))
    /\ [][(sess'.State = "established" /\ sess.State # "established")
            => sess.State = "syn_received"]_vars

\* a SYN+ACK packet and then an ACK packet were added, and the session is
\* established
C28_Witness ==
    /\ Len(sess.Packets) = 2
    /\ FlagsAre(sess.Packets[1], {SYN, ACK})
    /\ FlagsAre(sess.Packets[2], {ACK})
    /\ sess.State = "established"

-----------------------------------------------------------------------------
(* SpecExtract: ExtractSessionKey applied to one packet *)

HTTPUpper == <<72, 84, 84, 80>>

\* the layers a packet of SpecExtract is put together from: an ip layer with both
\* addresses, with the source only, or none; an ipv6 layer or none; one transport
\* layer, with or without its ports, or none; an application layer or none
ExtractIPLayers ==
    {<<>>, <<IPLayerOf(A, B)>>, <<Layer(IP, "ip.src" :> StrV(A))>>}
ExtractIPv6Layers == {<<>>, <<IPv6LayerOf(B, A)>>}
ExtractTransportLayers ==
    {<<>>,
     <<Layer(TCP, TCPPorts(One, Two))>>,
     <<Layer(TCP, "tcp.srcport" :> StrV(One))>>,
     <<UDPLayerOf(Two, One)>>,
     <<Layer(UDP, <<>>)>>,
     <<Layer(SCTP, ("sctp.srcport" :> StrV(One)) @@ ("sctp.dstport" :> StrV(Two)))>>,
     <<Layer(SCTP, <<>>)>>,
     <<Layer(DCCP, ("dccp.srcport" :> StrV(Two)) @@ ("dccp.dstport" :> StrV(One)))>>,
     <<Layer(SCTP, <<>>), UDPLayerOf(One, Two)>>}
ExtractTopLayers == {<<>>, <<Layer(HTTP, <<>>)>>, <<Layer(HTTPUpper, <<>>)>>}
ExtractPackets ==
    {Packet(i \o j \o t \o a, <<>>) :
        i \in ExtractIPLayers, j \in ExtractIPv6Layers,
        t \in ExtractTransportLayers, a \in ExtractTopLayers}

InitExtract ==
    /\ KeyIdle /\ SessionIdle /\ TrackerIdle /\ ConcIdle
    /\ inp \in ExtractPackets
    /\ layer = NoKey
    /\ out = NoKey

\* key, err := ExtractSessionKey(inp)
CallExtractSessionKey ==
    /\ out = NoKey
    /\ out' = Returned("ExtractSessionKey", <<>>, ExtractSessionKey(inp))
    /\ UNCHANGED <<keyVars, sess, trackerVars, fed, concVars, inp, layer>>

NextExtract == CallExtractSessionKey

SpecExtract == InitExtract /\ [][NextExtract]_vars

\* the names of the source and destination port fields of a transport layer
PortFields(t) ==
    CASE t = TCP -> <<"tcp.srcport", "tcp.dstport">>
      [] t = UDP -> <<"udp.srcport", "udp.dstport">>
      [] t = SCTP -> <<"sctp.srcport", "sctp.dstport">>
      [] t = DCCP -> <<"dccp.srcport", "dccp.dstport">>

\* the layer the addresses are taken from: ip, or ipv6 when there is no ip layer
AddressLayer(p) ==
    IF HasLayer(p, IP) THEN GetLayer(p, IP)
    ELSE IF HasLayer(p, IPV6) THEN GetLayer(p, IPV6)
    ELSE Layer(<<>>, <<>>)

\* the names of its source and destination address fields
AddressFields(l) ==
    IF l.Name = IP THEN <<"ip.src", "ip.dst">> ELSE <<"ipv6.src", "ipv6.dst">>

\* C26: for a packet with an IP layer carrying source and destination addresses,
\* ExtractSessionKey returns as protocol the packet's transport layer name (tcp,
\* udp, sctp or dccp) or, when it has none, its highest layer name; SrcIP/DstIP
\* from the ip layer, or from the ipv6 layer when there is no ip layer; and
\* SrcPort/DstPort equal to the transport layer's source and destination ports
\* when the packet has a transport layer carrying them, and both empty otherwise.
C26_ExtractedKey ==
    LET l == AddressLayer(inp)
        t == TransportLayer(inp)
        carriesPorts == /\ t # <<>>
                        /\ PortFields(t)[1] \in DOMAIN GetLayer(inp, t).Fields
                        /\ PortFields(t)[2] \in DOMAIN GetLayer(inp, t).Fields
    IN (/\ out # NoKey
        /\ AddressFields(l)[1] \in DOMAIN l.Fields
        /\ AddressFields(l)[2] \in DOMAIN l.Fields) =>
           /\ ~out.res.err
           /\ out.res.key.Protocol = IF t # <<>> THEN t ELSE HighestLayer(inp)
           /\ out.res.key.SrcIP = Sprintv(l.Fields[AddressFields(l)[1]])
           /\ out.res.key.DstIP = Sprintv(l.Fields[AddressFields(l)[2]])
           /\ out.res.key.SrcPort =
                IF carriesPorts THEN Sprintv(GetLayer(inp, t).Fields[PortFields(t)[1]])
                ELSE <<>>
           /\ out.res.key.DstPort =
                IF carriesPorts THEN Sprintv(GetLayer(inp, t).Fields[PortFields(t)[2]])
                ELSE <<>>

-----------------------------------------------------------------------------
(* The state of a Session against its packet list (SpecSession, SpecConc) *)

\* the TCP transition table as stated: any state -> closed on RST; any state ->
\* fin_wait_1 on the first FIN and fin_wait_1/fin_wait_2 -> closing on a second;
\* -> syn_sent on a SYN without ACK; -> syn_received on SYN+ACK; syn_received ->
\* established on an ACK; no change otherwise
TransitionTable(state, p) ==
    IF HasFlag(p, RST) THEN "closed"
    ELSE IF HasFlag(p, FIN)
    THEN IF state \in {"fin_wait_1", "fin_wait_2"} THEN "closing" ELSE "fin_wait_1"
    ELSE IF IsSyn(p) THEN "syn_sent"
    ELSE IF IsSynAck(p) THEN "syn_received"
    ELSE IF HasFlag(p, ACK) /\ state = "syn_received" THEN "established"
    ELSE state

\* the state reached from state by the packets in list order
RECURSIVE TableReplay(_, _)
TableReplay(state, packets) ==
    IF packets = <<>> THEN state
    ELSE TableReplay(TransitionTable(state, Head(packets)), Tail(packets))

\* no packet combines SYN with FIN or RST, which the table does not order
TableOrders(packets) ==
    \A i \in 1..Len(packets) :
        HasFlag(packets[i], SYN) => ~HasFlag(packets[i], FIN) /\ ~HasFlag(packets[i], RST)

\* the State of s is the replay of its Packets, when nobody holds its lock
StateIsReplay(s) ==
    (s.Mutex = NoOne /\ TableOrders(s.Packets)) => s.State = TableReplay("new", s.Packets)

\* C27: whenever no AddPacket call holds a session's lock, the Session's State is
\* the state obtained by starting from new and applying the TCP transition table
\* to the packets of Session.Packets in list order, with one producer or several.
C27_StateFollowsPackets ==
    /\ StateIsReplay(sess)
    /\ \A o \in 1..Len(objs) : StateIsReplay(objs[o])

-----------------------------------------------------------------------------
(* The sessions of the tracker against their keys (Spec) *)

\* C29: in every reachable SessionTracker state each Session is stored under the
\* string form of its own key, that key is normalized, and every packet in its
\* Packets list has a normalized extracted key equal to the session's key, so two
\* packets whose normalized keys differ are never in the same Session, for all IP
\* and port strings including ones that contain ':' or '-'.
C29_SessionsHoldTheirKey ==
    \A ks \in DOMAIN sessions :
        /\ ks = String(SessionAt(ks).Key)
        /\ SessionAt(ks).Key = Normalized(SessionAt(ks).Key)
        /\ \A i \in 1..Len(SessionAt(ks).Packets) :
             /\ ~ExtractSessionKey(SessionAt(ks).Packets[i]).err
             /\ KeyOf(SessionAt(ks).Packets[i]) = SessionAt(ks).Key

-----------------------------------------------------------------------------
(* SpecCapture: an InMemCapture and the tshark processes it starts *)

\* tshark processes one capture starts
MaxProcs == 2
\* packet records written over all processes
MaxRecords == 3
\* packets handed to one ParsePackets or FeedPackets call
MaxBatch == 2

LinkTypeNull == 0
LinkTypeEthernet == 1
LinkTypes == {LinkTypeNull, LinkTypeEthernet}

\* the raw packets handed to the capture
BinaryPackets == {<<1>>, <<2, 3>>}
Batches == UNION {[1..n -> BinaryPackets] : n \in 0..MaxBatch}

\* what one Write call puts on a process's stdin
GlobalHeader(linkType) == [kind |-> "global header", LinkType |-> linkType]
PacketHeader(packet) == [kind |-> "packet header", incl_len |-> Len(packet)]
PacketData(packet) == [kind |-> "packet data", bytes |-> packet]

\* the capture; Process and Stdin are 0 for nil, and otherwise the number of the
\* process whose pipes they are
NewInMemCapture ==
    [currentLinkType |-> LinkTypeEthernet, Process |-> 0, Stdin |-> 0,
     packets |-> <<>>, pcapHeaderWritten |-> FALSE]

\* a call in progress: the capture c, the stdin streams of the processes started
\* so far, the number of Write calls that will still succeed, and what the call
\* returns
World(c, streams, writes) ==
    [c |-> c, streams |-> streams, writes |-> writes, err |-> FALSE, res |-> <<>>]
Failed(w) == [w EXCEPT !.err = TRUE]

\* c.currentTShark.Stdin.Write(rec)
StdinWrite(w, rec) ==
    IF w.writes = 0 THEN Failed(w)
    ELSE [w EXCEPT !.streams[w.c.Stdin] = Append(@, rec), !.writes = @ - 1]

\* started: whether the tshark command could be created, piped and started
getTSharkProcess(w, started) ==
    IF w.c.Process # 0 THEN w
    ELSE IF ~started THEN Failed(w)
    ELSE [w EXCEPT !.streams = Append(@, <<>>),
                   !.c.Process = Len(w.streams) + 1,
                   !.c.Stdin = Len(w.streams) + 1]

writePCAPHeader(w) == StdinWrite(w, GlobalHeader(w.c.currentLinkType))

writePacket(w, packet) ==
    IF w.c.Stdin = 0 THEN Failed(w)
    ELSE LET h == StdinWrite(w, PacketHeader(packet))
         IN  IF h.err THEN h ELSE StdinWrite(h, PacketData(packet))

writePacketToTSharkStdin(w, packet) ==
    IF w.c.Stdin = 0 THEN Failed(w)
    ELSE IF ~w.c.pcapHeaderWritten
         THEN LET h == writePCAPHeader(w)
              IN  IF h.err THEN h
                  ELSE writePacket([h EXCEPT !.c.pcapHeaderWritten = TRUE], packet)
         ELSE writePacket(w, packet)

\* read: whether tshark's output is the expected number of packets, with nothing
\* on its stderr
readPacketsFromTShark(w, expected, read) ==
    IF w.c.Process = 0 THEN Failed(w)
    ELSE IF ~read THEN Failed(w)
    ELSE [w EXCEPT !.res = expected]

CaptureClose(w) ==
    IF w.c.Process # 0
    THEN [w EXCEPT !.c.Process = 0, !.c.Stdin = 0]
    ELSE w

CaptureParsePacket(w, binaryPacket, started, read) ==
    LET g == getTSharkProcess(w, started)
    IN  IF g.err THEN g
        ELSE LET wr == writePacketToTSharkStdin(g, binaryPacket)
             IN  IF wr.err THEN wr
                 ELSE readPacketsFromTShark(wr, <<binaryPacket>>, read)

RECURSIVE WriteAll(_, _)
WriteAll(w, binaryPackets) ==
    IF binaryPackets = <<>> THEN w
    ELSE LET wr == writePacketToTSharkStdin(w, Head(binaryPackets))
         IN  IF wr.err THEN wr ELSE WriteAll(wr, Tail(binaryPackets))

CaptureParsePackets(w, binaryPackets, started, read) ==
    LET g == getTSharkProcess(w, started)
    IN  IF g.err THEN g
        ELSE LET wr == WriteAll(g, binaryPackets)
             IN  IF wr.err THEN wr
                 ELSE readPacketsFromTShark(wr, binaryPackets, read)

CaptureFeedPacket(w, binaryPacket, linkType, started, read) ==
    LET p == CaptureParsePacket([w EXCEPT !.c.currentLinkType = linkType],
                                binaryPacket, started, read)
    IN  IF p.err THEN p
        ELSE [CaptureClose(p) EXCEPT !.c.packets = @ \o p.res]

CaptureFeedPackets(w, binaryPackets, linkType, started, read) ==
    LET p == CaptureParsePackets([w EXCEPT !.c.currentLinkType = linkType],
                                 binaryPackets, started, read)
    IN  IF p.err THEN p
        ELSE [CaptureClose(p) EXCEPT !.c.packets = @ \o p.res]

\* the packet records begun on a stdin stream, and on all of them
RecordsOn(stream) ==
    Cardinality({i \in 1..Len(stream) : stream[i].kind = "packet header"})
RECURSIVE RecordsWritten(_)
RecordsWritten(streams) ==
    IF streams = <<>> THEN 0
    ELSE RecordsOn(Head(streams)) + RecordsWritten(Tail(streams))

\* a call may start a process and write n packet records within the bounds
WithinBounds(n) ==
    /\ inp.Process # 0 \/ Len(out) < MaxProcs
    /\ RecordsWritten(out) + n <= MaxRecords

\* the Write calls of a call with n packets that succeed: all of them, or fewer
WriteBudgets(n) == 0..(1 + 2 * n)

\* the capture, the streams and the return value after a call
CaptureReturns(op, w) ==
    /\ inp' = w.c
    /\ out' = w.streams
    /\ layer' = Returned(op, <<>>, [err |-> w.err, res |-> w.res])
    /\ UNCHANGED <<keyVars, sess, trackerVars, fed, concVars>>

InitCapture ==
    /\ KeyIdle /\ SessionIdle /\ TrackerIdle /\ ConcIdle
    /\ inp = NewInMemCapture
    /\ out = <<>>
    /\ layer = NoKey

ParsePacket ==
    /\ WithinBounds(1)
    /\ \E p \in BinaryPackets, writes \in WriteBudgets(1), started, read \in BOOLEAN :
         CaptureReturns("ParsePacket",
                        CaptureParsePacket(World(inp, out, writes), p, started, read))

ParsePackets ==
    \E ps \in Batches, started, read \in BOOLEAN :
        /\ WithinBounds(Len(ps))
        /\ \E writes \in WriteBudgets(Len(ps)) :
             CaptureReturns("ParsePackets",
                            CaptureParsePackets(World(inp, out, writes), ps, started, read))

FeedPacket ==
    /\ WithinBounds(1)
    /\ \E p \in BinaryPackets, lt \in LinkTypes, writes \in WriteBudgets(1),
          started, read \in BOOLEAN :
         CaptureReturns("FeedPacket",
                        CaptureFeedPacket(World(inp, out, writes), p, lt, started, read))

FeedPackets ==
    \E ps \in Batches, lt \in LinkTypes, started, read \in BOOLEAN :
        /\ WithinBounds(Len(ps))
        /\ \E writes \in WriteBudgets(Len(ps)) :
             CaptureReturns("FeedPackets",
                            CaptureFeedPackets(World(inp, out, writes), ps, lt, started, read))

Close ==
    CaptureReturns("Close", CaptureClose(World(inp, out, 0)))

NextCapture == ParsePacket \/ ParsePackets \/ FeedPacket \/ FeedPackets \/ Close

SpecCapture == InitCapture /\ [][NextCapture]_vars

\* a stream that received anything begins with a global header and holds no other
OneHeaderFirst(stream) ==
    stream # <<>> =>
        /\ stream[1].kind = "global header"
        /\ \A i \in 2..Len(stream) : stream[i].kind # "global header"

\* C30: over any sequence of InMemCapture operations (ParsePacket, ParsePackets,
\* FeedPacket, FeedPackets, Close), every tshark process the capture starts
\* receives on its stdin exactly one PCAP global header, and receives it before
\* its first packet record, including a process started after an earlier one was
\* closed.
C30_OneGlobalHeaderFirst ==
    \A p \in 1..Len(out) : OneHeaderFirst(out[p])

=============================================================================
